---- MODULE Spec2Model ----
(***************************************************************************)
(* Model of the Automated Resume Screener: the temporal interval functions *)
(* of services/analysis.py, score_candidates of services/scoring.py and    *)
(* the session handling of the /api/process and /api/analytics handlers of *)
(* app.py.                                                                 *)
(***************************************************************************)
EXTENDS Integers, Sequences, FiniteSets, TLC

VARIABLES
    \* ---- services/analysis.py: one run of the interval pipeline
    norm,            \* the normalised interval list handed to the functions
    gaps,            \* result of _find_gaps
    overlaps,        \* result of _detect_overlaps
    total_months,    \* result of _calc_total_experience_months (1/30 month)
    an_pc,           \* position in the pipeline
    \* ---- services/scoring.py: one call of score_candidates
    job_text, hard_skills, nice_skills, candidates,
    vect_ok,         \* whether the vectoriser call succeeds
    cosine,          \* the similarities cosine_similarity returns
    results,         \* the returned list
    results_again,   \* the list returned by a second call on the same inputs
    sc_pc,           \* position of the call
    \* ---- app.py: the session store and the requests in flight
    SESSIONS,        \* session id -> the bucket object stored under it
    buckets,         \* the bucket objects (dicts) created so far, by id
    req,             \* request id -> the handler's locals and position
    served,          \* number of requests received so far
    \* ---- app.py: the numeric part of one /api/analytics request
    analytics,       \* the handler's locals from the error filter on
    \* ---- services/fairness.py: one call of redact_sensitive
    redaction,       \* the text given and the locals of the call
    \* ---- services/analysis.py: one call of analyze_profile_vs_job
    analyzing        \* the profile and text given and the locals of the call

vars == <<norm, gaps, overlaps, total_months, an_pc,
          job_text, hard_skills, nice_skills, candidates, vect_ok, cosine,
          results, results_again, sc_pc,
          SESSIONS, buckets, req, served, analytics, redaction, analyzing>>

an_vars == <<norm, gaps, overlaps, total_months, an_pc>>
sc_vars == <<job_text, hard_skills, nice_skills, candidates, vect_ok, cosine,
            results, results_again, sc_pc>>
app_vars == <<SESSIONS, buckets, req, served>>
more_vars == <<analytics, redaction, analyzing>>

(***************************************************************************)
(* Bounds of the model.                                                    *)
(***************************************************************************)
MaxIntervals == 3
MaxCands == 2
MaxCohort == 7

Min(a, b) == IF a <= b THEN a ELSE b
Max(a, b) == IF a >= b THEN a ELSE b

(***************************************************************************)
(* datetime values.  A datetime is a record of year, month, day and hour;  *)
(* tokens parsed by _parse_date carry hour 0, datetime.now() carries the   *)
(* time of day.                                                            *)
(***************************************************************************)
DT(y, m, d, h) == [year |-> y, month |-> m, day |-> d, hour |-> h]

IsLeap(y) == (y % 4 = 0 /\ y % 100 # 0) \/ y % 400 = 0

DaysInMonth(y, m) ==
    IF m = 2 THEN (IF IsLeap(y) THEN 29 ELSE 28)
    ELSE IF m \in {4, 6, 9, 11} THEN 30 ELSE 31

\* days of the year before the first of month m
DaysBeforeMonth(y, m) ==
    <<0, 31, 59, 90, 120, 151, 181, 212, 243, 273, 304, 334>>[m]
    + (IF m > 2 /\ IsLeap(y) THEN 1 ELSE 0)

\* proleptic Gregorian ordinal of the date part (datetime.toordinal)
ToOrdinal(dt) ==
    LET y1 == dt.year - 1
    IN  y1 * 365 + (y1 \div 4) - (y1 \div 100) + (y1 \div 400)
        + DaysBeforeMonth(dt.year, dt.month) + dt.day

\* position of a datetime on the time line, in hours
Hours(dt) == ToOrdinal(dt) * 24 + dt.hour

\* datetime comparison
DtLess(a, b) == Hours(a) < Hours(b)
DtLeq(a, b) == Hours(a) <= Hours(b)

\* (b - a).days : timedelta.days is the floor of the difference in days
DeltaDays(a, b) == (Hours(b) - Hours(a)) \div 24

\* dt.date().isoformat() : the date part only
IsoDate(dt) == [year |-> dt.year, month |-> dt.month, day |-> dt.day]

(***************************************************************************)
(* services/analysis.py                                                    *)
(***************************************************************************)
\* _months_between, in units of 1/30 month
_months_between(a, b) ==
    LET lo == IF DtLess(b, a) THEN b ELSE a
        hi == IF DtLess(b, a) THEN a ELSE b
        years == hi.year - lo.year
        months == hi.month - lo.month
        days == hi.day - lo.day
        total == (years * 12 + months) * 30 + days
    IN  Max(0, total)

RECURSIVE MergeFrom(_, _, _, _)
MergeFrom(n, i, cur_s, cur_e) ==
    IF i > Len(n) THEN <<<<cur_s, cur_e>>>>
    ELSE LET s == n[i][1]
             e == n[i][2]
         IN  IF DtLeq(s, cur_e)
             THEN MergeFrom(n, i + 1, cur_s, IF DtLess(cur_e, e) THEN e ELSE cur_e)
             ELSE <<<<cur_s, cur_e>>>> \o MergeFrom(n, i + 1, s, e)

\* mutant: a merged run always takes the end of the interval merged last
RECURSIVE MergeFromLastEnd(_, _, _, _)
MergeFromLastEnd(n, i, cur_s, cur_e) ==
    IF i > Len(n) THEN <<<<cur_s, cur_e>>>>
    ELSE LET s == n[i][1]
             e == n[i][2]
         IN  IF DtLeq(s, cur_e)
             THEN MergeFromLastEnd(n, i + 1, cur_s, e)
             ELSE <<<<cur_s, cur_e>>>> \o MergeFromLastEnd(n, i + 1, s, e)

\* mutant: an interval that starts where the run ends opens a new run
RECURSIVE MergeFromApart(_, _, _, _)
MergeFromApart(n, i, cur_s, cur_e) ==
    IF i > Len(n) THEN <<<<cur_s, cur_e>>>>
    ELSE LET s == n[i][1]
             e == n[i][2]
         IN  IF DtLess(s, cur_e)
             THEN MergeFromApart(n, i + 1, cur_s, IF DtLess(cur_e, e) THEN e ELSE cur_e)
             ELSE <<<<cur_s, cur_e>>>> \o MergeFromApart(n, i + 1, s, e)

_merge_intervals_apart(n) ==
    IF n = <<>> THEN <<>> ELSE MergeFromApart(n, 2, n[1][1], n[1][2])

_merge_intervals_last_end(n) ==
    IF n = <<>> THEN <<>> ELSE MergeFromLastEnd(n, 2, n[1][1], n[1][2])

_merge_intervals(n) ==
    IF n = <<>> THEN <<>> ELSE MergeFrom(n, 2, n[1][1], n[1][2])

RECURSIVE SumMonths(_)
SumMonths(n) ==
    IF n = <<>> THEN 0
    ELSE _months_between(n[1][1], n[1][2]) + SumMonths(Tail(n))

_calc_total_experience_months(n) == SumMonths(_merge_intervals(n))

GapThreshold == 92

RECURSIVE GapsFrom(_, _)
GapsFrom(n, i) ==
    IF i > Len(n) THEN <<>>
    ELSE LET prev_end == n[i - 1][2]
             curr_start == n[i][1]
             delta == DeltaDays(prev_end, curr_start)
         IN  (IF delta > GapThreshold
              THEN <<[start |-> IsoDate(prev_end), end |-> IsoDate(curr_start),
                      days |-> delta]>>
              ELSE <<>>) \o GapsFrom(n, i + 1)

\* mutant: the threshold test written >= instead of >
RECURSIVE GapsFromGeq(_, _)
GapsFromGeq(n, i) ==
    IF i > Len(n) THEN <<>>
    ELSE LET prev_end == n[i - 1][2]
             curr_start == n[i][1]
             delta == DeltaDays(prev_end, curr_start)
         IN  (IF delta >= GapThreshold
              THEN <<[start |-> IsoDate(prev_end), end |-> IsoDate(curr_start),
                      days |-> delta]>>
              ELSE <<>>) \o GapsFromGeq(n, i + 1)

_find_gaps_geq(n) == IF Len(n) < 2 THEN <<>> ELSE GapsFromGeq(n, 2)

_find_gaps(n) == IF Len(n) < 2 THEN <<>> ELSE GapsFrom(n, 2)

OverlapTolerance == 30

RECURSIVE OverlapsFrom(_, _)
OverlapsFrom(n, i) ==
    IF i > Len(n) THEN <<>>
    ELSE LET prev_e == n[i - 1][2]
             cur_s == n[i][1]
             cur_e == n[i][2]
             end == IF DtLeq(prev_e, cur_e) THEN prev_e ELSE cur_e
         IN  (IF Hours(cur_s) + OverlapTolerance * 24 < Hours(prev_e)
              THEN <<[start |-> IsoDate(cur_s), end |-> IsoDate(end),
                      days |-> DeltaDays(cur_s, end)]>>
              ELSE <<>>) \o OverlapsFrom(n, i + 1)

\* mutant: the window ends at the next interval's end, not at the minimum
RECURSIVE OverlapsFromCurEnd(_, _)
OverlapsFromCurEnd(n, i) ==
    IF i > Len(n) THEN <<>>
    ELSE LET prev_e == n[i - 1][2]
             cur_s == n[i][1]
             cur_e == n[i][2]
         IN  (IF Hours(cur_s) + OverlapTolerance * 24 < Hours(prev_e)
              THEN <<[start |-> IsoDate(cur_s), end |-> IsoDate(cur_e),
                      days |-> DeltaDays(cur_s, cur_e)]>>
              ELSE <<>>) \o OverlapsFromCurEnd(n, i + 1)

_detect_overlaps_cur_end(n) ==
    IF Len(n) < 2 THEN <<>> ELSE OverlapsFromCurEnd(n, 2)

_detect_overlaps(n) == IF Len(n) < 2 THEN <<>> ELSE OverlapsFrom(n, 2)

(***************************************************************************)
(* Inputs of the interval functions: the datetimes the model draws from,   *)
(* and the lists _normalize_ranges can return (start <= end, sorted by     *)
(* start).                                                                 *)
(***************************************************************************)
Jan2020 == DT(2020, 1, 1, 0)
Jun2020 == DT(2020, 6, 1, 0)
Jul2020 == DT(2020, 7, 1, 0)
Oct2020 == DT(2020, 10, 1, 0)
Oct2020Noon == DT(2020, 10, 1, 12)
Dec2020 == DT(2020, 12, 1, 0)
Aug2021 == DT(2021, 8, 1, 0)

DateTimes == {Jan2020, Jun2020, Jul2020, Oct2020, Oct2020Noon, Dec2020, Aug2021}

Intervals == {iv \in DateTimes \X DateTimes : DtLeq(iv[1], iv[2])}

SortedByStart(n) == \A i \in 1..(Len(n) - 1) : DtLeq(n[i][1], n[i + 1][1])

\* the start-sorted lists of exactly k intervals
IntervalLists(k) == {n \in [1..k -> Intervals] : SortedByStart(n)}

NoResult == <<"none">>

AnIdle ==
    /\ norm = <<>> /\ gaps = NoResult /\ overlaps = NoResult
    /\ total_months = -1 /\ an_pc = "idle"
ScIdle ==
    /\ job_text = <<>> /\ hard_skills = <<>> /\ nice_skills = <<>>
    /\ candidates = <<>> /\ vect_ok = TRUE /\ cosine = <<>>
    /\ results = NoResult /\ results_again = NoResult /\ sc_pc = "idle"
AppIdle ==
    /\ SESSIONS = <<>> /\ buckets = <<>> /\ req = <<>>
    /\ served = 0
\* the matrix X[1:] of fit_transform, by its number of columns; ok is FALSE
\* for the None the handler keeps when fit_transform raises
NoMatrix == [ok |-> FALSE, columns |-> 0]
IdleAnalytics ==
    [pc |-> "idle", job_text_redacted |-> <<>>, hard_skills |-> <<>>,
     nice_skills |-> <<>>, raw_candidates |-> <<>>, valid_candidates |-> <<>>,
     n |-> 0, cand_X |-> NoMatrix, coords |-> <<>>, k |-> 0, labels |-> <<>>,
     sim |-> <<>>, neighbors_all |-> <<>>, attempted |-> {}, failed |-> {},
     response |-> [status |-> 0, results |-> <<>>]]
IdleRedaction ==
    [pc |-> "idle", text |-> <<>>, age |-> <<>>, gender |-> <<>>, email |-> <<>>,
     out |-> <<>>, notes |-> <<>>, k |-> 0, result |-> [redacted |-> <<>>, notes |-> <<>>]]
NoProfile == [skills |-> <<>>, education |-> <<>>, experience_ranges |-> <<>>]
IdleAnalysis ==
    [pc |-> "idle", raw |-> NoProfile, text |-> <<>>, now |-> DT(0, 1, 1, 0),
     profile |-> NoProfile, ranges |-> <<>>, norm_all |-> <<>>, norm |-> <<>>,
     gaps |-> <<>>, overlaps |-> <<>>, total_months |-> 0]
MoreIdle ==
    /\ analytics = IdleAnalytics /\ redaction = IdleRedaction
    /\ analyzing = IdleAnalysis

(***************************************************************************)
(* SpecIntervals: the interval functions applied to a normalised list, in  *)
(* the order analyze_profile_vs_job calls them.                            *)
(***************************************************************************)
InitIntervals ==
    /\ \E k \in 0..MaxIntervals : norm \in IntervalLists(k)
    /\ gaps = NoResult /\ overlaps = NoResult /\ total_months = -1
    /\ an_pc = "gaps"
    /\ ScIdle /\ AppIdle /\ MoreIdle

FindGaps ==
    /\ an_pc = "gaps"
    /\ gaps' = _find_gaps(norm)
    /\ an_pc' = "overlaps"
    /\ UNCHANGED <<norm, overlaps, total_months, sc_vars, app_vars, more_vars>>

DetectOverlaps ==
    /\ an_pc = "overlaps"
    /\ overlaps' = _detect_overlaps(norm)
    /\ an_pc' = "total"
    /\ UNCHANGED <<norm, gaps, total_months, sc_vars, app_vars, more_vars>>

CalcTotalExperience ==
    /\ an_pc = "total"
    /\ total_months' = _calc_total_experience_months(norm)
    /\ an_pc' = "done"
    /\ UNCHANGED <<norm, gaps, overlaps, sc_vars, app_vars, more_vars>>

NextIntervals == FindGaps \/ DetectOverlaps \/ CalcTotalExperience

SpecIntervals == InitIntervals /\ [][NextIntervals]_vars

(***************************************************************************)
(* Claims about the interval functions (SpecIntervals).                    *)
(***************************************************************************)
\* the i-th smallest member of a set of indices
NthIndex(S, k) == CHOOSE i \in S : Cardinality({j \in S : j <= i}) = k

\* indices i whose interval starts more than 92 whole days after the end of
\* interval i-1
GapIndices(n) ==
    {i \in 2..Len(n) : (Hours(n[i][1]) - Hours(n[i - 1][2])) \div 24 > 92}

JanJun == <<Jan2020, Jun2020>>
OctDec == <<Oct2020, Dec2020>>
JulDec == <<Jul2020, Dec2020>>
JanDec == <<Jan2020, Dec2020>>
JunAug21 == <<Jun2020, Aug2021>>

\* C3: _find_gaps records a gap between consecutive intervals i-1 and i
\* exactly when the day distance from the end of i-1 to the start of i is
\* greater than 92; the record carries start = previous end, end = next
\* start and days = that distance; [Jan2020,Jun2020],[Oct2020,Dec2020] gives
\* exactly one gap and [Jan2020,Jun2020],[Jul2020,Dec2020] gives none.
C3_GapsExactlyOver92 ==
    an_pc \in {"overlaps", "total", "done"} =>
        /\ Len(gaps) = Cardinality(GapIndices(norm))
        /\ \A k \in 1..Len(gaps) :
              LET i == NthIndex(GapIndices(norm), k)
              IN  /\ gaps[k].start = IsoDate(norm[i - 1][2])
                  /\ gaps[k].end = IsoDate(norm[i][1])
                  /\ gaps[k].days = (Hours(norm[i][1]) - Hours(norm[i - 1][2])) \div 24
        /\ (norm = <<JanJun, OctDec>> => Len(gaps) = 1)
        /\ (norm = <<JanJun, JulDec>> => gaps = <<>>)

\* a distance of exactly 92 days (Jul 1 to Oct 1) is examined and yields
\* no gap
C3_WitnessExactly92 ==
    /\ an_pc = "overlaps"
    /\ norm = <<JanJun, <<Jul2020, Jul2020>>, OctDec>>
    /\ Len(gaps) = 0

\* the 122-day distance of the first example is reported as one gap
C3_WitnessGap ==
    /\ an_pc = "overlaps"
    /\ norm = <<JanJun, OctDec>>
    /\ gaps = <<[start |-> IsoDate(Jun2020), end |-> IsoDate(Oct2020), days |-> 122]>>

\* indices i whose interval starts more than 30 days before the end of
\* interval i-1
OverlapIndices(n) ==
    {i \in 2..Len(n) : Hours(n[i - 1][2]) - Hours(n[i][1]) > 30 * 24}

EarlierEnd(a, b) == IF Hours(a) <= Hours(b) THEN a ELSE b

\* C4: _detect_overlaps records an overlap for consecutive intervals prev,
\* next exactly when next.start precedes prev.end by more than 30 days; the
\* window is [next.start, min(prev.end, next.end)] with days = its length;
\* [Jan2020,Dec2020],[Jun2020,Aug2021] gives one overlap [Jun2020,Dec2020].
C4_OverlapsExactlyOver30 ==
    an_pc \in {"total", "done"} =>
        /\ Len(overlaps) = Cardinality(OverlapIndices(norm))
        /\ \A k \in 1..Len(overlaps) :
              LET i == NthIndex(OverlapIndices(norm), k)
                  w_end == EarlierEnd(norm[i - 1][2], norm[i][2])
              IN  /\ overlaps[k].start = IsoDate(norm[i][1])
                  /\ overlaps[k].end = IsoDate(w_end)
                  /\ overlaps[k].days = (Hours(w_end) - Hours(norm[i][1])) \div 24
        /\ (norm = <<JanDec, JunAug21>> =>
              /\ Len(overlaps) = 1
              /\ overlaps[1].start = IsoDate(Jun2020)
              /\ overlaps[1].end = IsoDate(Dec2020))

C4_Witness ==
    /\ an_pc = "total"
    /\ norm = <<JanDec, JunAug21>>
    /\ overlaps = <<[start |-> IsoDate(Jun2020), end |-> IsoDate(Dec2020), days |-> 183]>>

\* tenure of one interval as the month-difference formula gives it, in
\* 1/30 month
Tenure(iv) == _months_between(iv[1], iv[2])

RECURSIVE SumTenure(_, _)
SumTenure(n, i) == IF i > Len(n) THEN 0 ELSE Tenure(n[i]) + SumTenure(n, i + 1)

UpperCase == <<"A", "B", "C", "D", "E", "F", "G", "H", "I", "J", "K", "L", "M", "N", "O", "P", "Q", "R", "S", "T", "U", "V", "W", "X", "Y", "Z">>
LowerCase == <<"a", "b", "c", "d", "e", "f", "g", "h", "i", "j", "k", "l", "m", "n", "o", "p", "q", "r", "s", "t", "u", "v", "w", "x", "y", "z">>

\* the lower-case letter of every upper-case letter
LowerOf ==
    [c \in {UpperCase[i] : i \in 1..Len(UpperCase)} |->
        LowerCase[CHOOSE i \in 1..Len(UpperCase) : UpperCase[i] = c]]
LowerChar(c) == IF c \in DOMAIN LowerOf THEN LowerOf[c] ELSE c

\* str.lower()
Lower(s) == [i \in 1..Len(s) |-> LowerChar(s[i])]

\* a in b, for two str
IsSubstring(a, b) ==
    \E i \in 0..(Len(b) - Len(a)) : SubSeq(b, i + 1, i + Len(a)) = a

Range(seq) == {seq[i] : i \in 1..Len(seq)}

(***************************************************************************)
(* services/scoring.py.  Scores are exact multiples of 1/One.              *)
(***************************************************************************)
\* TREND_WEIGHTS: the default table, weights in tenths
TREND_WEIGHTS ==
    <<[skill |-> <<"a", "w", "s">>, weight |-> 10],
      [skill |-> <<"a", "z", "u", "r", "e">>, weight |-> 9],
      [skill |-> <<"g", "c", "p">>, weight |-> 9],
      [skill |-> <<"d", "o", "c", "k", "e", "r">>, weight |-> 9],
      [skill |-> <<"k", "u", "b", "e", "r", "n", "e", "t", "e", "s">>, weight |-> 10],
      [skill |-> <<"t", "e", "r", "r", "a", "f", "o", "r", "m">>, weight |-> 9],
      [skill |-> <<"c", "i", "/", "c", "d">>, weight |-> 8],
      [skill |-> <<"g", "i", "t", "h", "u", "b", " ", "a", "c", "t", "i", "o", "n", "s">>, weight |-> 6],
      [skill |-> <<"g", "i", "t", "l", "a", "b", " ", "c", "i">>, weight |-> 6],
      [skill |-> <<"k", "a", "f", "k", "a">>, weight |-> 9],
      [skill |-> <<"a", "i", "r", "f", "l", "o", "w">>, weight |-> 8],
      [skill |-> <<"s", "p", "a", "r", "k">>, weight |-> 9],
      [skill |-> <<"d", "a", "t", "a", "b", "r", "i", "c", "k", "s">>, weight |-> 9],
      [skill |-> <<"s", "n", "o", "w", "f", "l", "a", "k", "e">>, weight |-> 9],
      [skill |-> <<"d", "b", "t">>, weight |-> 8],
      [skill |-> <<"p", "y", "t", "o", "r", "c", "h">>, weight |-> 9],
      [skill |-> <<"t", "e", "n", "s", "o", "r", "f", "l", "o", "w">>, weight |-> 9],
      [skill |-> <<"t", "r", "a", "n", "s", "f", "o", "r", "m", "e", "r", "s">>, weight |-> 9],
      [skill |-> <<"m", "l", "o", "p", "s">>, weight |-> 9],
      [skill |-> <<"m", "l", "f", "l", "o", "w">>, weight |-> 8],
      [skill |-> <<"l", "l", "m">>, weight |-> 10],
      [skill |-> <<"l", "a", "n", "g", "c", "h", "a", "i", "n">>, weight |-> 8],
      [skill |-> <<"v", "e", "c", "t", "o", "r", " ", "d", "b">>, weight |-> 7],
      [skill |-> <<"f", "a", "i", "s", "s">>, weight |-> 7],
      [skill |-> <<"w", "e", "a", "v", "i", "a", "t", "e">>, weight |-> 7],
      [skill |-> <<"p", "i", "n", "e", "c", "o", "n", "e">>, weight |-> 7],
      [skill |-> <<"g", "o">>, weight |-> 8],
      [skill |-> <<"g", "o", "l", "a", "n", "g">>, weight |-> 8],
      [skill |-> <<"r", "u", "s", "t">>, weight |-> 9],
      [skill |-> <<"f", "a", "s", "t", "a", "p", "i">>, weight |-> 8],
      [skill |-> <<"g", "r", "p", "c">>, weight |-> 8],
      [skill |-> <<"t", "y", "p", "e", "s", "c", "r", "i", "p", "t">>, weight |-> 9],
      [skill |-> <<"r", "e", "a", "c", "t">>, weight |-> 8],
      [skill |-> <<"n", "e", "x", "t", ".", "j", "s">>, weight |-> 8],
      [skill |-> <<"n", "e", "x", "t", "j", "s">>, weight |-> 8],
      [skill |-> <<"o", "p", "e", "n", "t", "e", "l", "e", "m", "e", "t", "r", "y">>, weight |-> 8],
      [skill |-> <<"p", "r", "o", "m", "e", "t", "h", "e", "u", "s">>, weight |-> 7],
      [skill |-> <<"g", "r", "a", "f", "a", "n", "a">>, weight |-> 7],
      [skill |-> <<"a", "n", "s", "i", "b", "l", "e">>, weight |-> 7],
      [skill |-> <<"v", "a", "u", "l", "t">>, weight |-> 6],
      [skill |-> <<"k", "9", "s">>, weight |-> 4]>>

RECURSIVE SumWeights(_, _)
SumWeights(tw, i) ==
    IF i > Len(tw) THEN 0 ELSE tw[i].weight + SumWeights(tw, i + 1)

\* TREND_TOTAL, in tenths
TREND_TOTAL == SumWeights(TREND_WEIGHTS, 1)

\* the score 1.0
One == 6000 * TREND_TOTAL

\* the score n/d, for d a divisor of One
Frac(n, d) == n * (One \div d)

\* mutant: the lower bound of the clamp is missing
clamp01_no_floor(x) == Min(One, x)

\* max(0.0, min(1.0, x))
clamp01(x) == Max(0, Min(One, x))

_lower_set(items) == {Lower(s) : s \in Range(items)}

\* _detect_trend_skills: the matched skills (as a set) and the trend score
_detect_trend_skills(text_lower, cand_skills_lower) ==
    LET matched == {i \in 1..Len(TREND_WEIGHTS) :
                      \/ IsSubstring(TREND_WEIGHTS[i].skill, text_lower)
                      \/ TREND_WEIGHTS[i].skill \in cand_skills_lower}
        hit == [i \in 1..Len(TREND_WEIGHTS) |->
                  [skill |-> TREND_WEIGHTS[i].skill,
                   weight |-> IF i \in matched THEN TREND_WEIGHTS[i].weight ELSE 0]]
        score_sum == SumWeights(hit, 1)
    IN  [trend_skills |-> {TREND_WEIGHTS[i].skill : i \in matched},
         trend_score |-> Min(One, score_sum * (One \div TREND_TOTAL))]

\* JD_CERT_KEYS: the patterns are plain words; oci|oracle is two of them
JD_CERT_KEYS ==
    {<<"a", "w", "s">>,
     <<"a", "z", "u", "r", "e">>,
     <<"g", "c", "p">>,
     <<"c", "e", "r", "t", "i", "f", "i", "e", "d">>,
     <<"c", "i", "s", "s", "p">>,
     <<"p", "m", "p">>,
     <<"c", "k", "a">>,
     <<"c", "k", "a", "d">>,
     <<"r", "h", "c", "e">>,
     <<"o", "c", "i">>,
     <<"o", "r", "a", "c", "l", "e">>}

\* jd_cert_focus: some certification key occurs in the lowered job text
jd_cert_focus(jd) == \E k \in JD_CERT_KEYS : IsSubstring(k, Lower(jd))

\* the education bonus table, levels
EduLevels == {"phd", "masters", "bachelor", "diploma"}
EduValue(lvl) ==
    CASE lvl = "phd" -> Frac(6, 100)
      [] lvl = "masters" -> Frac(3, 100)
      [] lvl = "bachelor" -> Frac(1, 100)
      [] OTHER -> 0

RECURSIVE HighestLevel(_, _, _)
HighestLevel(edu_norm, i, highest) ==
    IF i > Len(edu_norm) THEN highest
    ELSE LET lvl == edu_norm[i].level
         IN  IF lvl \in EduLevels /\ (highest = "" \/ EduValue(lvl) > EduValue(highest))
             THEN HighestLevel(edu_norm, i + 1, lvl)
             ELSE HighestLevel(edu_norm, i + 1, highest)

\* PEN: the penalty of one flag
PEN(f) ==
    CASE f = "employment_gaps_detected" -> Frac(5, 100)
      [] f = "overlapping_roles_detected" -> Frac(3, 100)
      [] f = "possible_duplicate_claims" -> Frac(2, 100)
      [] f = "potential_exaggeration_detected" -> Frac(4, 100)
      [] OTHER -> 0

RECURSIVE SumPenalties(_, _)
SumPenalties(flags, i) ==
    IF i > Len(flags) THEN 0 ELSE PEN(flags[i]) + SumPenalties(flags, i + 1)

\* the text a candidate is scored on
TextSourceRawFirst(cand) ==
    IF cand.raw_text # <<>> THEN cand.raw_text ELSE cand.raw_text_redacted

\* cand.get("raw_text_redacted") or cand.get("raw_text", "")
TextSource(cand) ==
    IF cand.raw_text_redacted # <<>> THEN cand.raw_text_redacted ELSE cand.raw_text

\* the structured risk score of one candidate
RiskScore(cand, has_email, has_phone) ==
    LET flags == Range(cand.flags)
        risk ==
            (IF "employment_gaps_detected" \in flags THEN Frac(25, 100) ELSE 0)
          + (IF "overlapping_roles_detected" \in flags THEN Frac(20, 100) ELSE 0)
          + (IF "possible_duplicate_claims" \in flags THEN Frac(15, 100) ELSE 0)
          + (IF "potential_exaggeration_detected" \in flags THEN Frac(20, 100) ELSE 0)
          + (IF Len(cand.experience_ranges) = 0 THEN Frac(15, 100) ELSE 0)
          + (IF ~has_email \/ ~has_phone THEN Frac(10, 100) ELSE 0)
    IN  clamp01(risk)

\* labels whose thresholds belong to the lower label
RiskLabelStrict(risk) ==
    IF risk > Frac(6, 10) THEN "High"
    ELSE IF risk > Frac(3, 10) THEN "Medium" ELSE "Low"

\* the label of a risk score
RiskLabel(risk) ==
    IF risk >= Frac(6, 10) THEN "High"
    ELSE IF risk >= Frac(3, 10) THEN "Medium" ELSE "Low"

\* {**cand, **scores}
Merged(cand, scores) ==
    [k \in DOMAIN cand \cup DOMAIN scores |->
        IF k \in DOMAIN scores THEN scores[k] ELSE cand[k]]

\* the characters of the model's skill names, in code point order
CharOrder == <<" ", "#", "+", "-", ".", "0", "1", "2", "3", "4", "5", "6", "7", "8", "9", "a", "b", "c", "d", "e", "f", "g", "h", "i", "j", "k", "l", "m", "n", "o", "p", "q", "r", "s", "t", "u", "v", "w", "x", "y", "z">>
CharRank(c) == CHOOSE i \in 1..Len(CharOrder) : CharOrder[i] = c

\* a < b for str values of the characters above
RECURSIVE StrLess(_, _)
StrLess(a, b) ==
    IF b = <<>> THEN FALSE
    ELSE IF a = <<>> THEN TRUE
    ELSE IF Head(a) = Head(b) THEN StrLess(Tail(a), Tail(b))
    ELSE CharRank(Head(a)) < CharRank(Head(b))

\* sorted(S) for a set of str
RECURSIVE Sorted(_)
Sorted(S) ==
    IF S = {} THEN <<>>
    ELSE LET least == CHOOSE x \in S : \A y \in S \ {x} : StrLess(x, y)
         IN  <<least>> \o Sorted(S \ {least})

\* round(x, 3) of a score: to the nearest thousandth, a tie to the even one
Round3(x) ==
    LET u == One \div 1000
        q == x \div u
        r == x % u
    IN  IF 2 * r > u \/ (2 * r = u /\ q % 2 = 1) THEN (q + 1) * u ELSE q * u

\* (hits / max(1, len(lower))) if lower else 0.0
Coverage(hits, lower) ==
    IF lower # {} THEN Frac(hits, Max(1, Cardinality(lower))) ELSE 0

\* a keyword score that weighs both coverages alike
KeywordScoreEqualWeights(hard_cov, nice_cov) == (5 * hard_cov + 5 * nice_cov) \div 10

\* keyword_score = 0.7 * hard_cov + 0.3 * nice_cov
KeywordScore(hard_cov, nice_cov) == (7 * hard_cov + 3 * nice_cov) \div 10

\* an overall score to which the penalties are added
OverallSumPenaltyAdded(base_overall, cert_bonus, edu_bonus, contact_bonus, penalty_sum) ==
    base_overall + cert_bonus + edu_bonus + contact_bonus + penalty_sum

\* the overall score before the consistency bonus, unclamped
OverallSum(base_overall, cert_bonus, edu_bonus, contact_bonus, penalty_sum) ==
    base_overall + cert_bonus + edu_bonus + contact_bonus - penalty_sum

\* the body of the loop over the candidates, for one candidate
ScoreOne(cand, semantic_score, cert_focus, hard_lower, nice_lower) ==
    LET text_lower == Lower(TextSource(cand))
        cand_skills == _lower_set(cand.skills)
        hard_hits == Cardinality({s \in hard_lower :
                        IsSubstring(s, text_lower) \/ s \in cand_skills})
        nice_hits == Cardinality({s \in nice_lower :
                        IsSubstring(s, text_lower) \/ s \in cand_skills})
        hard_cov == Coverage(hard_hits, hard_lower)
        nice_cov == Coverage(nice_hits, nice_lower)
        keyword_score == KeywordScore(hard_cov, nice_cov)
        trend == _detect_trend_skills(text_lower, cand_skills)
        base_overall ==
            (50 * keyword_score + 35 * semantic_score + 15 * trend.trend_score) \div 100
        cert_cap == IF cert_focus THEN Frac(8, 100) ELSE Frac(6, 100)
        cert_bonus == Min(cert_cap, Len(cand.certifications) * Frac(3, 100))
        edu_bonus == EduValue(HighestLevel(cand.education_normalized, 1, ""))
        has_email == cand.contacts.email
        has_phone == cand.contacts.phone
        has_links == cand.contacts.links > 0
        contact_bonus ==
            Min(Frac(2, 100),
                (IF has_email THEN Frac(7, 1000) ELSE 0)
              + (IF has_phone THEN Frac(7, 1000) ELSE 0)
              + (IF has_links THEN Frac(6, 1000) ELSE 0))
        penalty_sum == Min(Frac(10, 100), SumPenalties(cand.flags, 1))
        overall1 == clamp01(OverallSum(base_overall, cert_bonus, edu_bonus,
                                       contact_bonus, penalty_sum))
        missing_hard == Sorted({s \in hard_lower :
                           ~IsSubstring(s, text_lower) /\ s \notin cand_skills})
        consistent_hits == Cardinality({s \in hard_lower :
                              s \in cand_skills /\ IsSubstring(s, text_lower)})
        total_considered == Max(1, Cardinality(hard_lower))
        \* consistency >= 0.5 and >= 0.25, without the division
        bonus0 == IF 2 * consistent_hits >= total_considered THEN Frac(2, 100)
                  ELSE IF 4 * consistent_hits >= total_considered THEN Frac(1, 100)
                  ELSE 0
        consistency_bonus == IF overall1 + bonus0 > One
                             THEN Max(0, One - overall1) ELSE bonus0
        overall == clamp01(overall1 + consistency_bonus)
        risk == RiskScore(cand, has_email, has_phone)
    IN  Merged(cand,
            [keyword_score |-> keyword_score,
             semantic_score |-> semantic_score,
             trend_score |-> trend.trend_score,
             trend_skills |-> trend.trend_skills,
             overall_score |-> overall,
             hard_skill_coverage |-> Round3(hard_cov),
             nice_skill_coverage |-> Round3(nice_cov),
             missing_hard_skills |-> missing_hard,
             risk_score |-> risk,
             risk_label |-> RiskLabel(risk)])

\* mutant: the number of flags is not negated, so more flags rank first
SortKeyMoreFlags(x) == <<x.overall_score, Len(x.flags), 0 - Len(x.gaps)>>

\* the sort key of a result
SortKey(x) == <<x.overall_score, 0 - Len(x.flags), 0 - Len(x.gaps)>>

\* tuple comparison a < b
KeyLess(a, b) ==
    \/ a[1] < b[1]
    \/ a[1] = b[1] /\ a[2] < b[2]
    \/ a[1] = b[1] /\ a[2] = b[2] /\ a[3] < b[3]

\* list.sort(key=SortKey, reverse=True) on a list of n elements: stable and
\* descending, so an element comes after the elements with a greater key and
\* after the earlier elements with an equal key
SortDesc(xs, n) ==
    LET key == [i \in 1..n |-> SortKey(xs[i])]
        rank == [i \in 1..n |->
                   1 + Cardinality({j \in 1..n :
                                      \/ KeyLess(key[i], key[j])
                                      \/ j < i /\ key[j] = key[i]})]
    IN  [p \in 1..n |-> xs[CHOOSE i \in 1..n : rank[i] = p]]

\* score_candidates; sims is what the vectoriser and cosine_similarity
\* return, or <<>> when they raise
score_candidates(job, cands, hard, nice, sims) ==
    LET cert_focus == jd_cert_focus(job)
        hard_lower == _lower_set(hard)
        nice_lower == _lower_set(nice)
        scored == [i \in 1..Len(cands) |->
                    ScoreOne(cands[i], IF i <= Len(sims) THEN sims[i] ELSE 0,
                             cert_focus, hard_lower, nice_lower)]
    IN  CHOOSE ranked \in {SortDesc(sc, Len(sc)) : sc \in {scored}} : TRUE

(***************************************************************************)
(* Inputs of score_candidates.                                             *)
(***************************************************************************)
\* skills: go, Go, sql, aws
S_go == <<"g", "o">>
S_Go == <<"G", "o">>
S_sql == <<"s", "q", "l">>
S_aws == <<"a", "w", "s">>
\* candidate texts: "Go dev, AWS" and "django sql" ("django" contains "go")
T_go_aws == <<"G", "o", " ", "d", "e", "v", ",", " ", "A", "W", "S">>
T_django == <<"d", "j", "a", "n", "g", "o", " ", "s", "q", "l">>
\* job texts: "need go" and "AWS cloud" (the latter emphasises certifications)
JD_go == <<"n", "e", "e", "d", " ", "g", "o">>
JD_aws == <<"A", "W", "S", " ", "c", "l", "o", "u", "d">>

FLAG_GAPS == "employment_gaps_detected"
FLAG_OVERLAPS == "overlapping_roles_detected"
FLAG_DUPS == "possible_duplicate_claims"
FLAG_EXAG == "potential_exaggeration_detected"
FLAG_JD == "remove_sensitive_attributes_from_job_description"

\* a candidate dict as app.py builds it (new_entry); the fields read with a
\* default by score_candidates are always present here
Cand(filename, text, skills, certs, edu, contacts, flags, ranges, gap_list) ==
    [filename |-> filename, error |-> FALSE,
     raw_text |-> text, raw_text_redacted |-> text,
     skills |-> skills, certifications |-> certs, education_normalized |-> edu,
     contacts |-> contacts, flags |-> flags,
     experience_ranges |-> ranges, gaps |-> gap_list]

\* an error entry {filename, error}: every other field reads as its default
ErrorEntry(filename) ==
    [filename |-> filename, error |-> TRUE,
     raw_text |-> <<>>, raw_text_redacted |-> <<>>,
     skills |-> <<>>, certifications |-> <<>>, education_normalized |-> <<>>,
     contacts |-> [email |-> FALSE, phone |-> FALSE, links |-> 0], flags |-> <<>>,
     experience_ranges |-> <<>>, gaps |-> <<>>]

NoContacts == [email |-> FALSE, phone |-> FALSE, links |-> 0]
EmailOnly == [email |-> TRUE, phone |-> FALSE, links |-> 0]
AllContacts == [email |-> TRUE, phone |-> TRUE, links |-> 2]

ARange == <<"Jan 2020", "Jun 2020">>
AGap == [start |-> IsoDate(Jun2020), end |-> IsoDate(Oct2020), days |-> 122]

NoCerts == <<>>
ThreeCerts == <<"pmp", "cka", "cissp">>
NoEdu == <<>>
MastersPhd == <<[raw |-> "MBA", level |-> "masters"], [raw |-> "PhD", level |-> "phd"]>>

\* the single candidates scored: every combination of these field values
CandSpace ==
    {Cand("one.pdf", t, sk, ce[1], ce[2], co, fl, er, <<>>) :
        t \in {<<>>, T_go_aws, T_django},
        sk \in {<<>>, <<S_go, S_sql>>},
        ce \in {<<NoCerts, NoEdu>>, <<ThreeCerts, NoEdu>>, <<NoCerts, MastersPhd>>,
                <<ThreeCerts, MastersPhd>>},
        co \in {NoContacts, EmailOnly, AllContacts},
        fl \in {<<>>, <<FLAG_GAPS>>,
                <<FLAG_OVERLAPS, FLAG_JD, FLAG_EXAG>>,
                <<FLAG_GAPS, FLAG_OVERLAPS, FLAG_DUPS, FLAG_EXAG>>},
        er \in {<<>>, <<ARange>>}}

\* the candidates of the ranked cohorts: equal and unequal scores, with
\* different numbers of flags and of gaps; h.pdf and i.pdf have a risk of
\* exactly 0.3 and 0.6
CandPool ==
    {Cand("a.pdf", <<>>, <<>>, <<>>, <<>>, NoContacts, <<>>, <<ARange>>, <<>>),
     Cand("b.pdf", <<>>, <<>>, <<>>, <<>>, NoContacts, <<FLAG_JD>>, <<ARange>>, <<>>),
     Cand("c.pdf", <<>>, <<>>, <<>>, <<>>, NoContacts, <<FLAG_GAPS>>, <<ARange>>,
          <<AGap>>),
     Cand("d.pdf", <<>>, <<>>, <<>>, <<>>, NoContacts, <<FLAG_GAPS>>, <<ARange>>,
          <<AGap, AGap>>),
     Cand("f.pdf", T_go_aws, <<>>, <<>>, <<>>, NoContacts, <<>>, <<ARange>>, <<>>),
     Cand("g.pdf", T_go_aws, <<>>, <<>>, <<>>, NoContacts, <<FLAG_GAPS>>, <<ARange>>,
          <<AGap>>),
     Cand("h.pdf", <<>>, <<>>, <<>>, <<>>, AllContacts, <<FLAG_DUPS>>, <<>>, <<>>),
     Cand("i.pdf", <<>>, <<>>, <<>>, <<>>, AllContacts,
          <<FLAG_GAPS, FLAG_OVERLAPS, FLAG_DUPS>>, <<ARange>>, <<AGap>>),
     ErrorEntry("e.pdf")}

\* what cosine_similarity returns for a cohort: nothing in common with the
\* job text, or the job text itself for every candidate with a text
CosineChoices(cands) ==
    {[i \in 1..Len(cands) |-> 0],
     [i \in 1..Len(cands) |-> IF TextSource(cands[i]) # <<>> THEN One ELSE 0]}

JobTexts == {JD_go, JD_aws}
\* required skills: none, one, two, one named twice in different case, three
HardSkillLists ==
    {<<>>, <<S_Go>>, <<S_go, S_sql>>, <<S_Go, S_go, S_sql>>, <<S_go, S_sql, S_aws>>}
NiceSkillLists == {<<>>, <<S_aws>>}

(***************************************************************************)
(* SpecScore: one call of score_candidates.                                *)
(***************************************************************************)
InitScore ==
    /\ job_text \in JobTexts
    /\ hard_skills \in HardSkillLists
    /\ nice_skills \in NiceSkillLists
    /\ \/ \E c \in CandSpace : candidates = <<c>>
       \/ \E k \in 0..MaxCands : candidates \in [1..k -> CandPool]
    /\ \/ vect_ok = FALSE /\ cosine = <<>>
       \/ vect_ok = TRUE /\ cosine \in CosineChoices(candidates)
    /\ results = NoResult /\ results_again = NoResult
    /\ sc_pc = "call"
    /\ AnIdle /\ AppIdle /\ MoreIdle

\* the caller's list if the results were written into the candidate dicts
\* and sorted in place
InputUpdatedInPlace(cands, ranked) == ranked

\* the caller's list after the call: the call reads the candidate dicts
\* with get, builds a new dict {**cand, ...} per candidate and sorts the new
\* list, so the list and its dicts are as they were
InputAfterCall(cands, ranked) == cands

\* the first call.  vect_ok and cosine are what the vectoriser and
\* cosine_similarity give for these documents; fit_transform refits the
\* vectoriser from the documents alone
ScoreCandidates ==
    /\ sc_pc = "call"
    /\ \E ranked \in {score_candidates(job_text, candidates, hard_skills,
                                       nice_skills,
                                       IF vect_ok THEN cosine ELSE <<>>)} :
          /\ results' = ranked
          /\ candidates' = InputAfterCall(candidates, ranked)
    /\ sc_pc' = "done"
    /\ UNCHANGED <<job_text, hard_skills, nice_skills, vect_ok, cosine,
                   results_again, an_vars, app_vars, more_vars>>

\* a second call with the same arguments, on the objects as the first call
\* left them
ScoreAgain ==
    /\ sc_pc = "done"
    /\ \E ranked \in {score_candidates(job_text, candidates, hard_skills,
                                       nice_skills,
                                       IF vect_ok THEN cosine ELSE <<>>)} :
          /\ results_again' = ranked
          /\ candidates' = InputAfterCall(candidates, ranked)
    /\ sc_pc' = "twice"
    /\ UNCHANGED <<job_text, hard_skills, nice_skills, vect_ok, cosine,
                   results, an_vars, app_vars, more_vars>>

NextScore == ScoreCandidates \/ ScoreAgain

SpecScore == InitScore /\ [][NextScore]_vars

(***************************************************************************)
(* Claims about score_candidates (SpecScore).                              *)
(***************************************************************************)
\* C1: for every candidate returned by score_candidates, whatever the job
\* text, skill lists, candidate text, flags, certifications, education and
\* contacts, overall_score and risk_score are within [0,1]; with zero
\* candidates the call returns an empty list.
C1_ScoresWithinUnitInterval ==
    sc_pc = "done" =>
        /\ Len(results) = Len(candidates)
        /\ \A i \in 1..Len(results) :
              /\ 0 <= results[i].overall_score /\ results[i].overall_score <= One
              /\ 0 <= results[i].risk_score /\ results[i].risk_score <= One
        /\ (candidates = <<>> => results = <<>>)

\* a candidate whose penalties exceed its base score and whose risk terms
\* sum to more than 1: both scores sit on a bound of the interval
C1_Witness ==
    /\ sc_pc = "done"
    /\ Len(results) = 1
    /\ Len(results[1].flags) = 4
    /\ results[1].experience_ranges = <<>>
    /\ results[1].overall_score = 0
    /\ results[1].risk_score = One

\* a call with zero candidates returns the empty list
C1_WitnessEmpty == sc_pc = "done" /\ candidates = <<>> /\ results = <<>>

\* the fields of a result that come from the candidate
CandidateOf(r) == [k \in DOMAIN ErrorEntry("") |-> r[k]]

Occurrences(seq, x) == Cardinality({i \in 1..Len(seq) : seq[i] = x})

\* C2: the returned list is a permutation of the input candidates in which,
\* for every adjacent pair (a before b): a.overall_score > b.overall_score,
\* or the scores are equal and a has fewer flags than b, or scores and flag
\* counts are equal and a has no more gaps than b.
C2_RankedPermutation ==
    sc_pc = "done" =>
        LET from == [i \in 1..Len(results) |-> CandidateOf(results[i])]
        IN  /\ Len(results) = Len(candidates)
            /\ \A c \in Range(candidates) \cup Range(from) :
                  Occurrences(from, c) = Occurrences(candidates, c)
            /\ \A i \in 1..(Len(results) - 1) :
                  LET a == results[i]
                      b == results[i + 1]
                  IN  \/ a.overall_score > b.overall_score
                      \/ /\ a.overall_score = b.overall_score
                         /\ Len(a.flags) < Len(b.flags)
                      \/ /\ a.overall_score = b.overall_score
                         /\ Len(a.flags) = Len(b.flags)
                         /\ Len(a.gaps) <= Len(b.gaps)

\* two candidates with equal overall score given in the order (more flags,
\* fewer flags) come back with the one with fewer flags first
C2_Witness ==
    /\ sc_pc = "done"
    /\ Len(results) = 2
    /\ results[1].overall_score = results[2].overall_score
    /\ Len(results[1].flags) < Len(results[2].flags)
    /\ CandidateOf(results[1]) = candidates[2]
    /\ CandidateOf(results[2]) = candidates[1]

(***************************************************************************)
(* Text handling of the request handlers: str.strip, str.split, the word   *)
(* boundaries of the regular expressions, and redact_sensitive of          *)
(* services/fairness.py.                                                   *)
(***************************************************************************)
Digits == <<"0", "1", "2", "3", "4", "5", "6", "7", "8", "9">>

\* \w of the re module
WordChars == Range(UpperCase) \cup Range(LowerCase) \cup Range(Digits) \cup {"_"}
IsWordChar(c) == c \in WordChars
IsSpace(c) == c \in {" ", "\t", "\n"}

RECURSIVE LStrip(_)
LStrip(s) == IF s # <<>> /\ IsSpace(Head(s)) THEN LStrip(Tail(s)) ELSE s
RECURSIVE RStrip(_)
RStrip(s) ==
    IF s # <<>> /\ IsSpace(s[Len(s)]) THEN RStrip(SubSeq(s, 1, Len(s) - 1)) ELSE s
\* str.strip()
Strip(s) == RStrip(LStrip(s))

\* str.split(sep): the pieces between the occurrences of the character sep
RECURSIVE SplitFrom(_, _, _, _)
SplitFrom(s, sep, i, cur) ==
    IF i > Len(s) THEN <<cur>>
    ELSE IF s[i] = sep THEN <<cur>> \o SplitFrom(s, sep, i + 1, <<>>)
    ELSE SplitFrom(s, sep, i + 1, Append(cur, s[i]))
Split(s, sep) == SplitFrom(s, sep, 1, <<>>)

\* [s.strip() for s in raw.split(",") if s.strip()] if raw else []
ParseSkills(raw) ==
    IF raw = <<>> THEN <<>>
    ELSE LET parts == Split(raw, ",")
             stripped == [i \in 1..Len(parts) |-> Strip(parts[i])]
         IN  SelectSeq(stripped, LAMBDA x : x # <<>>)

\* a text cut into its maximal runs of word characters and its single
\* non-word characters: a run is what \b...\b can match as a whole word
RECURSIVE RunsFrom(_, _, _)
RunsFrom(s, i, cur) ==
    LET flush == IF cur = <<>> THEN <<>> ELSE <<cur>>
    IN  IF i > Len(s) THEN flush
        ELSE IF IsWordChar(s[i]) THEN RunsFrom(s, i + 1, Append(cur, s[i]))
        ELSE flush \o << <<s[i]>> >> \o RunsFrom(s, i + 1, <<>>)
Runs(s) == RunsFrom(s, 1, <<>>)

RECURSIVE Flatten(_)
Flatten(rs) == IF rs = <<>> THEN <<>> ELSE Head(rs) \o Flatten(Tail(rs))

\* the whole-word alternatives of GENDER_PAT, MARITAL_PAT, RELIGION_PAT,
\* NATIONALITY_PAT and ETHNICITY_PAT.  The alternatives "mr.", "mrs.", "ms."
\* and "native american" span more than one run: no text of this model
\* holds any of them.
GENDER_WORDS ==
    {<<"h", "e">>, <<"s", "h", "e">>, <<"h", "i", "m">>, <<"h", "e", "r">>,
     <<"h", "i", "s">>, <<"h", "e", "r", "s">>}
MARITAL_WORDS ==
    {<<"s", "i", "n", "g", "l", "e">>, <<"m", "a", "r", "r", "i", "e", "d">>,
     <<"d", "i", "v", "o", "r", "c", "e", "d">>,
     <<"w", "i", "d", "o", "w", "e", "d">>}
RELIGION_WORDS ==
    {<<"h", "i", "n", "d", "u">>, <<"m", "u", "s", "l", "i", "m">>,
     <<"c", "h", "r", "i", "s", "t", "i", "a", "n">>, <<"s", "i", "k", "h">>,
     <<"b", "u", "d", "d", "h", "i", "s", "t">>, <<"j", "a", "i", "n">>,
     <<"j", "e", "w", "i", "s", "h">>}
NATIONALITY_WORDS ==
    {<<"i", "n", "d", "i", "a", "n">>,
     <<"a", "m", "e", "r", "i", "c", "a", "n">>,
     <<"b", "r", "i", "t", "i", "s", "h">>,
     <<"c", "h", "i", "n", "e", "s", "e">>,
     <<"j", "a", "p", "a", "n", "e", "s", "e">>,
     <<"g", "e", "r", "m", "a", "n">>, <<"f", "r", "e", "n", "c", "h">>,
     <<"i", "t", "a", "l", "i", "a", "n">>,
     <<"s", "p", "a", "n", "i", "s", "h">>,
     <<"r", "u", "s", "s", "i", "a", "n">>}
ETHNICITY_WORDS ==
    {<<"b", "l", "a", "c", "k">>, <<"w", "h", "i", "t", "e">>,
     <<"a", "s", "i", "a", "n">>, <<"h", "i", "s", "p", "a", "n", "i", "c">>,
     <<"l", "a", "t", "i", "n", "o">>,
     <<"c", "a", "u", "c", "a", "s", "i", "a", "n">>}

REDACTION_TOKEN == <<"[", "R", "E", "D", "A", "C", "T", "E", "D", "]">>

\* pat.search(text), case-insensitive
PatSearch(words, s) ==
    LET rs == Runs(s) IN \E i \in 1..Len(rs) : Lower(rs[i]) \in words
\* pat.sub(REDACTION_TOKEN, text)
PatSub(words, s) ==
    LET rs == Runs(s)
    IN  Flatten([i \in 1..Len(rs) |->
                   IF Lower(rs[i]) \in words THEN REDACTION_TOKEN ELSE rs[i]])

\* \b between s[i - 1] and s[i]
Boundary(s, i) ==
    (i > 1 /\ IsWordChar(s[i - 1])) # (i <= Len(s) /\ IsWordChar(s[i]))

\* the literal w, given in lower case, stands at s[i], in either case
LitAt(s, i, w) ==
    i + Len(w) - 1 <= Len(s) /\ Lower(SubSeq(s, i, i + Len(w) - 1)) = w

\* the first position from i on that does not hold a character of chars
RunEnd(s, i, chars) ==
    CHOOSE j \in i..(Len(s) + 1) :
        /\ j = Len(s) + 1 \/ s[j] \notin chars
        /\ \A q \in i..(j - 1) : s[q] \in chars

DigitChars == Range(Digits)
SpaceChars == {" ", "\t", "\n"}
Letters == Range(UpperCase) \cup Range(LowerCase)
\* [A-Z0-9._%+-] and [A-Z0-9.-], case-insensitive
LocalChars == Letters \cup DigitChars \cup {".", "_", "%", "+", "-"}
DomainChars == Letters \cup DigitChars \cup {".", "-"}

IsDigitAt(s, i) == i <= Len(s) /\ s[i] \in DigitChars

\* AGE_PAT matched at s[i]: the position after the match, or 0.
\* \b(\d{2})\s*years?\s*old\b
AgeYearsOldEnd(s, i) ==
    IF Boundary(s, i) /\ IsDigitAt(s, i) /\ IsDigitAt(s, i + 1)
    THEN LET y == RunEnd(s, i + 2, SpaceChars)
             o == RunEnd(s, IF LitAt(s, y + 4, <<"s">>) THEN y + 5 ELSE y + 4,
                         SpaceChars)
         IN  IF LitAt(s, y, <<"y", "e", "a", "r">>)
                /\ LitAt(s, o, <<"o", "l", "d">>) /\ Boundary(s, o + 3)
             THEN o + 3 ELSE 0
    ELSE 0

\* \bage\s*\d{2}\b
AgeNumberEnd(s, i) ==
    IF Boundary(s, i) /\ LitAt(s, i, <<"a", "g", "e">>)
    THEN LET d == RunEnd(s, i + 3, SpaceChars)
         IN  IF IsDigitAt(s, d) /\ IsDigitAt(s, d + 1) /\ Boundary(s, d + 2)
             THEN d + 2 ELSE 0
    ELSE 0

AgeEnd(s, i) ==
    IF AgeYearsOldEnd(s, i) > 0 THEN AgeYearsOldEnd(s, i) ELSE AgeNumberEnd(s, i)

\* the e-mail alternative of CONTACT_PAT matched at s[i]:
\* \b[A-Z0-9._%+-]+@[A-Z0-9.-]+\.[A-Z]{2,}\b.  The domain part is greedy:
\* it ends before the last dot that is followed by two letters or more and
\* a word boundary
EmailEnd(s, i) ==
    IF Boundary(s, i) /\ i <= Len(s) /\ s[i] \in LocalChars
    THEN LET at == RunEnd(s, i, LocalChars)
             m == RunEnd(s, at + 1, DomainChars)
             dots == {d \in (at + 2)..(m - 1) :
                        /\ s[d] = "."
                        /\ RunEnd(s, d + 1, Letters) >= d + 3
                        /\ Boundary(s, RunEnd(s, d + 1, Letters))}
         IN  IF at <= Len(s) /\ s[at] = "@" /\ dots # {}
             THEN RunEnd(s, (CHOOSE d \in dots : \A e \in dots : e <= d) + 1, Letters)
             ELSE 0
    ELSE 0

\* CONTACT_PAT matched at s[i].  Its telephone alternative needs nine digits
\* or more; the texts of the model hold fewer
ContactEnd(s, i) == EmailEnd(s, i)

MatchEnd(kind, s, i) == IF kind = "age" THEN AgeEnd(s, i) ELSE ContactEnd(s, i)

\* pat.sub(REDACTION_TOKEN, s) from position i on: the matches from left to
\* right, none overlapping another
RECURSIVE SubFrom(_, _, _)
SubFrom(kind, s, i) ==
    IF i > Len(s) THEN <<>>
    ELSE IF MatchEnd(kind, s, i) > 0
         THEN REDACTION_TOKEN \o SubFrom(kind, s, MatchEnd(kind, s, i))
         ELSE <<s[i]>> \o SubFrom(kind, s, i + 1)

\* the (name, pattern) pairs redact_sensitive walks, in its order
RedactionPatterns ==
    <<[name |-> "gender", kind |-> "words", words |-> GENDER_WORDS],
      [name |-> "age", kind |-> "age", words |-> {}],
      [name |-> "marital", kind |-> "words", words |-> MARITAL_WORDS],
      [name |-> "religion", kind |-> "words", words |-> RELIGION_WORDS],
      [name |-> "nationality", kind |-> "words", words |-> NATIONALITY_WORDS],
      [name |-> "ethnicity", kind |-> "words", words |-> ETHNICITY_WORDS],
      [name |-> "contact", kind |-> "contact", words |-> {}]>>

\* pat.search(out) and pat.sub(REDACTION_TOKEN, out) for a pattern of the list
PatternSearch(pat, s) ==
    IF pat.kind = "words" THEN PatSearch(pat.words, s)
    ELSE \E i \in 1..Len(s) : MatchEnd(pat.kind, s, i) > 0
PatternSub(pat, s) ==
    IF pat.kind = "words" THEN PatSub(pat.words, s) ELSE SubFrom(pat.kind, s, 1)

RECURSIVE RedactFrom(_, _, _)
RedactFrom(out, notes, k) ==
    IF k > Len(RedactionPatterns) THEN [redacted |-> out, notes |-> notes]
    ELSE LET pat == RedactionPatterns[k]
         IN  IF PatternSearch(pat, out)
             THEN RedactFrom(PatternSub(pat, out), Append(notes, pat.name), k + 1)
             ELSE RedactFrom(out, notes, k + 1)

\* redact_sensitive: the redacted text and the names of the patterns that hit
redact_sensitive(text) ==
    IF text = <<>> THEN [redacted |-> <<>>, notes |-> <<>>]
    ELSE RedactFrom(text, <<>>, 1)

(***************************************************************************)
(* extract_profile of services/nlp.py and analyze_profile_vs_job of        *)
(* services/analysis.py, as far as the texts of this model can exercise    *)
(* them: these texts hold no certificate name, no e-mail address, no link, *)
(* no stated number of years, no percentage, no multiplier and fewer than  *)
(* five superlatives, so those passes find nothing in them.                *)
(***************************************************************************)
TokenChars ==
    Range(UpperCase) \cup Range(LowerCase) \cup Range(Digits)
    \cup {"+", "#", ".", "-"}
IsTokenChar(c) == c \in TokenChars
\* the non-empty pieces of re.split(r"[^a-zA-Z0-9+#\.\-]", s)
RECURSIVE TokensFrom(_, _, _)
TokensFrom(s, i, cur) ==
    LET flush == IF cur = <<>> THEN {} ELSE {cur}
    IN  IF i > Len(s) THEN flush
        ELSE IF IsTokenChar(s[i]) THEN TokensFrom(s, i + 1, Append(cur, s[i]))
        ELSE flush \cup TokensFrom(s, i + 1, <<>>)
Tokens(s) == TokensFrom(s, 1, <<>>)

\* the fallback taxonomy of _load_skill_taxonomy
SKILL_TAXONOMY ==
    {<<"p", "y", "t", "h", "o", "n">>, <<"j", "a", "v", "a">>,
     <<"j", "a", "v", "a", "s", "c", "r", "i", "p", "t">>,
     <<"r", "e", "a", "c", "t">>, <<"n", "o", "d", "e">>,
     <<"d", "j", "a", "n", "g", "o">>, <<"f", "l", "a", "s", "k">>,
     <<"s", "q", "l">>, <<"m", "y", "s", "q", "l">>,
     <<"p", "o", "s", "t", "g", "r", "e", "s", "q", "l">>,
     <<"m", "o", "n", "g", "o", "d", "b">>, <<"n", "l", "p">>,
     <<"s", "p", "a", "c", "y">>, <<"p", "y", "t", "o", "r", "c", "h">>,
     <<"t", "e", "n", "s", "o", "r", "f", "l", "o", "w">>,
     <<"s", "c", "i", "k", "i", "t", "-", "l", "e", "a", "r", "n">>,
     <<"g", "i", "t">>, <<"d", "o", "c", "k", "e", "r">>,
     <<"k", "u", "b", "e", "r", "n", "e", "t", "e", "s">>, <<"a", "w", "s">>,
     <<"a", "z", "u", "r", "e">>, <<"g", "c", "p">>, <<"h", "t", "m", "l">>,
     <<"c", "s", "s">>, <<"l", "i", "n", "u", "x">>, <<"r", "e", "s", "t">>,
     <<"f", "a", "s", "t", "a", "p", "i">>, <<"o", "p", "e", "n", "c", "v">>}
\* the multi-word skills of extract_profile
multi ==
    {
     <<"m", "a", "c", "h", "i", "n", "e", " ", "l", "e", "a", "r", "n", "i", "n", "g">>,
     <<"d", "a", "t", "a", " ", "s", "c", "i", "e", "n", "c", "e">>,
     <<"d", "e", "e", "p", " ", "l", "e", "a", "r", "n", "i", "n", "g">>,
     <<"n", "a", "t", "u", "r", "a", "l", " ", "l", "a", "n", "g", "u", "a", "g", "e", " ", "p", "r", "o", "c", "e", "s", "s", "i", "n", "g">>,
     <<"c", "o", "m", "p", "u", "t", "e", "r", " ", "v", "i", "s", "i", "o", "n">>,
     <<"p", "r", "o", "j", "e", "c", "t", " ", "m", "a", "n", "a", "g", "e", "m", "e", "n", "t">>,
     <<"d", "a", "t", "a", " ", "a", "n", "a", "l", "y", "s", "i", "s">>,
     <<"w", "e", "b", " ", "d", "e", "v", "e", "l", "o", "p", "m", "e", "n", "t">>}
MULTI_SKILLS ==
    {
     <<"m", "a", "c", "h", "i", "n", "e", " ", "l", "e", "a", "r", "n", "i", "n", "g">>,
     <<"d", "a", "t", "a", " ", "s", "c", "i", "e", "n", "c", "e">>,
     <<"d", "e", "e", "p", " ", "l", "e", "a", "r", "n", "i", "n", "g">>,
     <<"n", "a", "t", "u", "r", "a", "l", " ", "l", "a", "n", "g", "u", "a", "g", "e", " ", "p", "r", "o", "c", "e", "s", "s", "i", "n", "g">>,
     <<"c", "o", "m", "p", "u", "t", "e", "r", " ", "v", "i", "s", "i", "o", "n">>,
     <<"p", "r", "o", "j", "e", "c", "t", " ", "m", "a", "n", "a", "g", "e", "m", "e", "n", "t">>,
     <<"d", "a", "t", "a", " ", "a", "n", "a", "l", "y", "s", "i", "s">>,
     <<"w", "e", "b", " ", "d", "e", "v", "e", "l", "o", "p", "m", "e", "n", "t">>,
     <<"o", "b", "j", "e", "c", "t", " ", "o", "r", "i", "e", "n", "t", "e", "d", " ", "p", "r", "o", "g", "r", "a", "m", "m", "i", "n", "g">>,
     <<"r", "e", "s", "t", " ", "a", "p", "i">>,
     <<"m", "i", "c", "r", "o", "s", "e", "r", "v", "i", "c", "e", "s">>}
SKILL_SYNONYMS ==
    {<<<<"j", "s">>, <<"j", "a", "v", "a", "s", "c", "r", "i", "p", "t">>>>,
     <<<<"n", "o", "d", "e", "j", "s">>, <<"n", "o", "d", "e">>>>,
     <<<<"t", "s">>, <<"t", "y", "p", "e", "s", "c", "r", "i", "p", "t">>>>,
     <<<<"t", "f">>, <<"t", "e", "n", "s", "o", "r", "f", "l", "o", "w">>>>,
     <<<<"s", "c", "i", "k", "i", "t", " ", "l", "e", "a", "r", "n">>, <<"s", "c", "i", "k", "i", "t", "-", "l", "e", "a", "r", "n">>>>,
     <<<<"n", "l", "t", "k">>, <<"n", "l", "p">>>>,
     <<<<"n", "a", "t", "u", "r", "a", "l", " ", "l", "a", "n", "g", "u", "a", "g", "e", " ", "p", "r", "o", "c", "e", "s", "s", "i", "n", "g">>, <<"n", "l", "p">>>>,
     <<<<"m", "l">>, <<"m", "a", "c", "h", "i", "n", "e", " ", "l", "e", "a", "r", "n", "i", "n", "g">>>>,
     <<<<"d", "l">>, <<"d", "e", "e", "p", " ", "l", "e", "a", "r", "n", "i", "n", "g">>>>}

extract_profile(text) ==
    LET lowered == Lower(text)
        skills_found == {tok \in Tokens(lowered) : tok \in SKILL_TAXONOMY}
                        \cup {ph \in multi : IsSubstring(ph, lowered)}
    IN  [skills |-> Sorted(skills_found),
         education |-> <<>>,
         experience_ranges |-> <<>>]

\* the whole-word alternatives of EMPLOYMENT_KW and PROJECT_KW ("mini
\* project" holds the word "project")
EMPLOYMENT_WORDS ==
    {<<"e", "m", "p", "l", "o", "y", "e", "r">>, <<"c", "o", "m", "p", "a", "n", "y">>, <<"r", "o", "l", "e">>, <<"p", "o", "s", "i", "t", "i", "o", "n">>, <<"e", "n", "g", "i", "n", "e", "e", "r">>, <<"d", "e", "v", "e", "l", "o", "p", "e", "r">>, <<"m", "a", "n", "a", "g", "e", "r">>, <<"a", "n", "a", "l", "y", "s", "t">>, <<"i", "n", "t", "e", "r", "n">>, <<"c", "o", "n", "s", "u", "l", "t", "a", "n", "t">>, <<"a", "t">>}
PROJECT_WORDS ==
    {<<"p", "r", "o", "j", "e", "c", "t">>, <<"c", "a", "p", "s", "t", "o", "n", "e">>, <<"t", "h", "e", "s", "i", "s">>, <<"a", "s", "s", "i", "g", "n", "m", "e", "n", "t">>, <<"c", "o", "u", "r", "s", "e", "w", "o", "r", "k">>, <<"m", "i", "n", "i", "p", "r", "o", "j", "e", "c", "t">>}

\* the whole-word alternatives of DEG_MAP, in its order; the alternatives
\* written with a dot (ph.d, m.sc, b.e.) span more than one run: no
\* education line of this model holds any of them
DEG_MAP ==
    <<[words |-> {<<"p", "h", "d">>, <<"d", "o", "c", "t", "o", "r">>, <<"d", "o", "c", "t", "o", "r", "a", "t", "e">>, <<"d", "p", "h", "i", "l">>}, level |-> "phd"],
      [words |-> {<<"m", "t", "e", "c", "h">>, <<"m", "s">>, <<"m", "a", "s", "t", "e", "r">>, <<"m", "b", "a">>}, level |-> "masters"],
      [words |-> {<<"b", "t", "e", "c", "h">>, <<"b", "e">>, <<"b", "a", "c", "h", "e", "l", "o", "r">>}, level |-> "bachelor"],
      [words |-> {<<"d", "i", "p", "l", "o", "m", "a">>, <<"a", "s", "s", "o", "c", "i", "a", "t", "e">>}, level |-> "diploma"]>>

\* the education lines a pattern of DEG_MAP matches, each with the level of
\* the first pattern that matches it
EducationNormalized(education) ==
    LET hit(l) == {k \in 1..Len(DEG_MAP) : PatSearch(DEG_MAP[k].words, l)}
        lines == SelectSeq(education, LAMBDA l : hit(l) # {})
    IN  [i \in 1..Len(lines) |->
           [raw |-> lines[i],
            level |-> DEG_MAP[CHOOSE k \in hit(lines[i]) :
                                 \A j \in hit(lines[i]) : k <= j].level]]

\* re.search(r"\+?\d[\d\s().-]{8,}\d", t)
PhoneChars == DigitChars \cup SpaceChars \cup {"(", ")", ".", "-"}
PhoneSearch(t) ==
    \E i \in 1..Len(t) :
       /\ t[i] \in DigitChars
       /\ \E j \in (i + 9)..Len(t) :
            /\ t[j] \in DigitChars
            /\ \A q \in (i + 1)..(j - 1) : t[q] \in PhoneChars

\* str.splitlines(), for the line break "\n"
SplitLines(t) ==
    LET parts == Split(t, "\n")
    IN  IF t = <<>> THEN <<>>
        ELSE IF parts[Len(parts)] = <<>> THEN SubSeq(parts, 1, Len(parts) - 1)
        ELSE parts

\* " ".join(lines[lo:hi]), lo and hi counted from 1 and inclusive
RECURSIVE JoinLines(_, _, _)
JoinLines(lines, lo, hi) ==
    IF lo > hi THEN <<>>
    ELSE IF lo = hi THEN lines[lo]
    ELSE lines[lo] \o <<" ">> \o JoinLines(lines, lo + 1, hi)

\* the separator class [\u2013\-to]+ under re.I; the texts of this model
\* are ASCII
SepChars == {"-", "t", "o", "T", "O"}
Digits4At(s, i) == \A k \in 0..3 : IsDigitAt(s, i + k)
IsSlashAt(s, i) == i <= Len(s) /\ s[i] \in {"/", "-"}

\* range_year, \b\d{4}\b, matched at s[i]: the position after it, or 0
YearEnd(s, i) ==
    IF Boundary(s, i) /\ Digits4At(s, i) /\ Boundary(s, i + 4) THEN i + 4 ELSE 0
\* range_num, \d{1,2}[\/\-]\d{4}, matched at s[i]
NumEnd(s, i) ==
    IF IsDigitAt(s, i) /\ IsDigitAt(s, i + 1) /\ IsSlashAt(s, i + 2)
       /\ Digits4At(s, i + 3) THEN i + 7
    ELSE IF IsDigitAt(s, i) /\ IsSlashAt(s, i + 1) /\ Digits4At(s, i + 2)
    THEN i + 6
    ELSE 0
TokenEnd(kind, s, i) == IF kind = "num" THEN NumEnd(s, i) ELSE YearEnd(s, i)
\* the second group: a token of the same kind, or present, or current
EndTokenEnd(kind, s, i) ==
    IF TokenEnd(kind, s, i) > 0 THEN TokenEnd(kind, s, i)
    ELSE IF LitAt(s, i, <<"p", "r", "e", "s", "e", "n", "t">>) \/ LitAt(s, i, <<"c", "u", "r", "r", "e", "n", "t">>)
    THEN i + 7
    ELSE 0

NoMatch == [found |-> FALSE, start |-> <<>>, end |-> <<>>]
\* pat_num or pat_year matched at s[i]:
\* (token)\s*[sep]+\s*(token|present|current)
RangeAt(kind, s, i) ==
    LET g1 == TokenEnd(kind, s, i)
        a == RunEnd(s, g1, SpaceChars)
        b == RunEnd(s, a, SepChars)
        c == RunEnd(s, b, SpaceChars)
        g2 == EndTokenEnd(kind, s, c)
    IN  IF g1 > 0 /\ b > a /\ g2 > 0
        THEN [found |-> TRUE, start |-> SubSeq(s, i, g1 - 1),
              end |-> SubSeq(s, c, g2 - 1)]
        ELSE NoMatch
\* pat.search(l): the leftmost match
RangeSearch(kind, s) ==
    LET at == {i \in 1..Len(s) : RangeAt(kind, s, i).found}
    IN  IF at = {} THEN NoMatch
        ELSE RangeAt(kind, s, CHOOSE i \in at : \A j \in at : i <= j)

\* extra_ranges: one pair for each line that is not blank, holds no project
\* word, has an employment word on it or on a neighbouring line, and holds
\* a range
ExtraRanges(t) ==
    LET lines == SplitLines(t)
        m(l) == IF RangeSearch("num", l).found THEN RangeSearch("num", l)
                ELSE RangeSearch("year", l)
        takes(i) ==
            LET l == Strip(lines[i])
            IN  /\ l # <<>>
                /\ ~PatSearch(PROJECT_WORDS, l)
                /\ PatSearch(EMPLOYMENT_WORDS,
                             JoinLines(lines, Max(1, i - 1), Min(Len(lines), i + 1)))
                /\ m(l).found
        at == SelectSeq([i \in 1..Len(lines) |-> i], takes)
    IN  [k \in 1..Len(at) |->
           <<m(Strip(lines[at[k]])).start, m(Strip(lines[at[k]])).end>>]

\* mutant: the supplemental ranges take the place of the ranges found before
ReplaceBySupplemental(ranges, extra_ranges) ==
    IF extra_ranges # <<>> THEN extra_ranges ELSE ranges

\* exist = set(experience_ranges); every supplemental range not in exist is
\* appended, exist being computed once, before the loop
AppendSupplemental(ranges, extra_ranges) ==
    LET exist == Range(ranges)
    IN  ranges \o SelectSeq(extra_ranges, LAMBDA r : r \notin exist)

\* _enrich_profile: multi-word skills and synonyms added to the skills, the
\* education lines normalised, the supplemental ranges appended
_enrich_profile(profile, text) ==
    LET lowered == Lower(text)
        sk == _lower_set(profile.skills)
              \cup {ph \in MULTI_SKILLS : IsSubstring(ph, lowered)}
              \cup {p[2] : p \in {q \in SKILL_SYNONYMS : q[1] \in Tokens(lowered)}}
    IN  [skills |-> Sorted(sk),
         education |-> profile.education,
         experience_ranges |->
             AppendSupplemental(profile.experience_ranges, ExtraRanges(text)),
         education_normalized |-> EducationNormalized(profile.education),
         certifications |-> <<>>,
         contacts |-> [email |-> FALSE, phone |-> PhoneSearch(text), links |-> 0]]

\* the whole-word alternatives of SENSITIVE_PAT
SENSITIVE_WORDS ==
    {<<"m", "a", "l", "e">>, <<"f", "e", "m", "a", "l", "e">>,
     <<"m", "a", "r", "r", "i", "e", "d">>, <<"s", "i", "n", "g", "l", "e">>}
IMPROVEMENT_WORDS ==
    {<<"i", "n", "c", "r", "e", "a", "s", "e">>,
     <<"i", "n", "c", "r", "e", "a", "s", "e", "d">>,
     <<"i", "n", "c", "r", "e", "a", "s", "e", "e", "d">>,
     <<"b", "o", "o", "s", "t">>, <<"b", "o", "o", "s", "t", "e", "d">>,
     <<"i", "m", "p", "r", "o", "v", "e">>,
     <<"i", "m", "p", "r", "o", "v", "e", "d">>,
     <<"r", "e", "d", "u", "c", "e">>, <<"r", "e", "d", "u", "c", "e", "d">>,
     <<"g", "r", "e", "w">>, <<"g", "r", "o", "w">>,
     <<"a", "c", "c", "e", "l", "e", "r", "a", "t", "e">>,
     <<"a", "c", "c", "e", "l", "e", "r", "a", "t", "e", "d">>,
     <<"d", "e", "c", "r", "e", "a", "s", "e">>,
     <<"d", "e", "c", "r", "e", "a", "s", "e", "d">>, <<"c", "u", "t">>}
TIMEFRAME_WORDS ==
    {<<"m", "o", "n", "t", "h">>, <<"m", "o", "n", "t", "h", "s">>,
     <<"y", "e", "a", "r">>, <<"y", "e", "a", "r", "s">>,
     <<"w", "e", "e", "k">>, <<"w", "e", "e", "k", "s">>}

_metric_anomaly_heuristics(text) ==
    LET t == Lower(text)
    IN  IF text = <<>> THEN <<>>
        ELSE IF (\E w \in IMPROVEMENT_WORDS : IsSubstring(w, t))
                /\ ~PatSearch(TIMEFRAME_WORDS, t)
        THEN <<"claims_without_timeframe">>
        ELSE <<>>

\* int() of a string of digits
DigitVal(c) == CHOOSE d \in 0..9 : Digits[d + 1] = c
RECURSIVE NumVal(_)
NumVal(ds) ==
    IF ds = <<>> THEN 0
    ELSE 10 * NumVal(SubSeq(ds, 1, Len(ds) - 1)) + DigitVal(ds[Len(ds)])

\* the None of _parse_date
NoDate == DT(0, 1, 1, 0)
MonthNames ==
    <<<<"j", "a", "n">>, <<"f", "e", "b">>, <<"m", "a", "r">>, <<"a", "p", "r">>,
      <<"m", "a", "y">>, <<"j", "u", "n">>, <<"j", "u", "l">>, <<"a", "u", "g">>,
      <<"s", "e", "p">>, <<"o", "c", "t">>, <<"n", "o", "v">>, <<"d", "e", "c">>>>

\* _parse_date for the tokens of this model, which hold no "to" and no long
\* dash, so that the replacements leave them as they are.  dateutil reads
\* "2019" as a year, "1/2020" as month and year and "Jan 2020" as month
\* name and year, fills the missing day from the default 2000-01-01, and
\* raises for a month outside 1..12 and for a string without a date
_parse_date(token) ==
    LET t == Strip(token)
        sl == RunEnd(t, 1, DigitChars)
    IN  IF Len(t) = 4 /\ Digits4At(t, 1) THEN DT(NumVal(t), 1, 1, 0)
        ELSE IF t # <<>> /\ NumEnd(t, 1) = Len(t) + 1
        THEN LET month == NumVal(SubSeq(t, 1, sl - 1))
             IN  IF month \in 1..12
                 THEN DT(NumVal(SubSeq(t, sl + 1, Len(t))), month, 1, 0)
                 ELSE NoDate
        ELSE IF /\ Len(t) = 8 /\ t[4] = " " /\ Digits4At(t, 5)
                /\ \E m \in 1..12 : MonthNames[m] = Lower(SubSeq(t, 1, 3))
        THEN DT(NumVal(SubSeq(t, 5, 8)),
                CHOOSE m \in 1..12 : MonthNames[m] = Lower(SubSeq(t, 1, 3)), 1, 0)
        ELSE NoDate

\* _normalize_range: <<s, e>>, e being None for present and current
_normalize_range(start, end) ==
    <<_parse_date(start),
      IF Lower(Strip(end)) \in {<<"p", "r", "e", "s", "e", "n", "t">>, <<"c", "u", "r", "r", "e", "n", "t">>} THEN NoDate
      ELSE _parse_date(end)>>

\* norm.sort(key=lambda x: x[0]): stable and ascending
SortByStart(xs) ==
    LET n == Len(xs)
        rank == [i \in 1..n |->
                   1 + Cardinality({j \in 1..n :
                                      \/ DtLess(xs[j][1], xs[i][1])
                                      \/ j < i /\ xs[j][1] = xs[i][1]})]
    IN  [p \in 1..n |-> xs[CHOOSE i \in 1..n : rank[i] = p]]

\* the filter s <= e
KeptInOrder(iv) == DtLeq(iv[1], iv[2])

\* _normalize_ranges, now being what datetime.now() returns
_normalize_ranges(ranges, now) ==
    LET se == [i \in 1..Len(ranges) |-> _normalize_range(ranges[i][1], ranges[i][2])]
        parsed == SelectSeq(se, LAMBDA x : x[1] # NoDate)
        norm0 == [i \in 1..Len(parsed) |->
                    <<parsed[i][1],
                      IF parsed[i][2] # NoDate THEN parsed[i][2] ELSE now>>]
    IN  CHOOSE sorted \in {SortByStart(v) : v \in {SelectSeq(norm0, KeptInOrder)}} :
            TRUE

\* min_months = 2.0, in units of 1/30 month
MinMonths == 60
\* mutant: no interval is discarded
_filter_nothing(n) == n
_filter_short_intervals(n) ==
    SelectSeq(n, LAMBDA iv : _months_between(iv[1], iv[2]) >= MinMonths)

\* the time of the requests of the session model
Clock == DT(2021, 3, 15, 9)

\* the dict analyze_profile_vs_job returns: the flags, the missing skills
\* and the fields passed through
AnalysisResult(profile, gap_list, overlap_list, total, anomaly_reasons, job, hard) ==
    LET cand_skills == _lower_set(profile.skills)
        missing == Sorted({s \in _lower_set(hard) : s \notin cand_skills})
        flags == (IF gap_list # <<>> THEN <<FLAG_GAPS>> ELSE <<>>)
                 \o (IF overlap_list # <<>> THEN <<FLAG_OVERLAPS>> ELSE <<>>)
                 \o (IF PatSearch(SENSITIVE_WORDS, job) THEN <<FLAG_JD>> ELSE <<>>)
                 \o (IF anomaly_reasons # <<>> THEN <<FLAG_EXAG>> ELSE <<>>)
    IN  [profile |-> profile,
         gaps |-> gap_list, overlaps |-> overlap_list,
         total_experience_months |-> total,
         flags |-> flags, anomaly_reasons |-> anomaly_reasons,
         missing_hard_skills |-> missing]

\* the anomaly reasons: those of the text, or of the total when there is no
\* text (total_years < 0.25, in units of 1/30 month)
AnomalyReasons(candidate_text, total) ==
    IF candidate_text # <<>> THEN _metric_anomaly_heuristics(candidate_text)
    ELSE IF total < 90 THEN <<"very_low_total_experience_in_ranges">>
    ELSE <<>>

\* the analysis from the total on
AnalysisOfTotal(profile, gap_list, overlap_list, total, job, hard, candidate_text) ==
    AnalysisResult(profile, gap_list, overlap_list, total,
                   AnomalyReasons(candidate_text, total), job, hard)

\* the analysis of the enriched profile with the filtered intervals n
AnalysisOfIntervals(profile, n, job, hard, candidate_text) ==
    AnalysisOfTotal(profile, _find_gaps(n), _detect_overlaps(n),
                    _calc_total_experience_months(n), job, hard, candidate_text)

\* the analysis of the enriched profile
AnalysisOfProfile(now, profile, job, hard, candidate_text) ==
    AnalysisOfIntervals(profile,
        _filter_short_intervals(_normalize_ranges(profile.experience_ranges, now)),
        job, hard, candidate_text)

\* analyze_profile_vs_job, called at the time now
analyze_profile_vs_job_at(now, prof, job, hard, nice, candidate_text) ==
    AnalysisOfProfile(now, _enrich_profile(prof, candidate_text), job, hard,
                      candidate_text)

analyze_profile_vs_job(prof, job, hard, nice, candidate_text) ==
    analyze_profile_vs_job_at(Clock, prof, job, hard, nice, candidate_text)

(***************************************************************************)
(* The session store and the request handlers of app.py.  A bucket is a    *)
(* dict object: SESSIONS maps a session id to the id of the bucket object  *)
(* stored under it, buckets holds the objects.  A candidate entry is a     *)
(* dict object as well: its oid names the object, so that a change made    *)
(* through one list is seen through every list holding the same object.    *)
(* analyzed_for records the arguments analyze_profile_vs_job was called    *)
(* with when the entry was built, and pre the store as it was when the     *)
(* request was received; neither is read by the handlers.                  *)
(***************************************************************************)
MAX_RESUMES_PER_BATCH == 50

None == "None"
\* the value of the local "bucket" when the request holds no bucket; bucket
\* objects are numbered from 1
NoBucket == 0
\* what analyzed_for holds in an error entry, which no analysis built
NoContext == [job_text |-> <<>>, hard_skills |-> <<>>, nice_skills |-> <<>>]
\* the empty store
NoStore == [SESSIONS |-> <<>>, buckets |-> <<>>]

NoResponse == [status |-> 0, error |-> None, results |-> <<>>]
EmptyForm ==
    [job_description |-> <<>>, hard_skills |-> <<>>, nice_skills |-> <<>>,
     session_id |-> <<>>]

IdleRequest ==
    [pc |-> "idle", serial |-> 0, endpoint |-> None, form |-> EmptyForm,
     files |-> <<>>, job_text_redacted |-> <<>>, hard_skills |-> <<>>,
     nice_skills |-> <<>>, sess_id |-> <<>>, bucket |-> NoBucket,
     candidates |-> <<>>, idx |-> 0, files_read |-> 0,
     response |-> NoResponse, pre |-> NoStore]

\* SESSIONS.get(sess_id)
SessionsGet(S, sess_id) == IF sess_id \in DOMAIN S THEN S[sess_id] ELSE NoBucket
\* d[key] = value
DictSet(d, key, value) ==
    [k \in DOMAIN d \cup {key} |-> IF k = key THEN value ELSE d[k]]

\* the Validate of a handler that does not look at the job description
ValidateFilesOnly(job, files, sess_id) ==
    IF files = <<>> /\ sess_id = <<>> THEN "Please upload at least one resume"
    ELSE IF Len(files) > MAX_RESUMES_PER_BATCH THEN "Maximum 50 resumes allowed per batch"
    ELSE "ok"

\* the Validate of a handler that accepts a request without files and
\* without a session key
ValidateJobOnly(job, files, sess_id) ==
    IF job = <<>> THEN "Job description is required"
    ELSE IF Len(files) > MAX_RESUMES_PER_BATCH THEN "Maximum 50 resumes allowed per batch"
    ELSE "ok"

\* the checks made before any document is read: the error message of the
\* 400 response, or "ok"
Validate(job, files, sess_id) ==
    IF job = <<>> THEN "Job description is required"
    ELSE IF files = <<>> /\ sess_id = <<>> THEN "Please upload at least one resume"
    ELSE IF Len(files) > MAX_RESUMES_PER_BATCH THEN "Maximum 50 resumes allowed per batch"
    ELSE "ok"

\* the ContextChanged of a handler that compares the job text only
ContextChangedJobOnly(bucket, job, hard, nice) == bucket.job_text # job

\* the test that resets the accumulation
ContextChanged(bucket, job, hard, nice) ==
    \/ bucket.job_text # job
    \/ bucket.hard_skills # hard
    \/ bucket.nice_skills # nice

Context(job, hard, nice) ==
    [job_text |-> job, hard_skills |-> hard, nice_skills |-> nice]

\* {"filename": filename, "error": ...}
ErrorDict(filename, oid) ==
    [k \in DOMAIN ErrorEntry(filename) \cup {"oid", "analyzed_for"} |->
        IF k = "oid" THEN oid
        ELSE IF k = "analyzed_for" THEN NoContext
        ELSE ErrorEntry(filename)[k]]

\* new_entry: {filename, raw_text, raw_text_redacted, redaction_notes,
\* **prof, **analysis}; total_experience_years is kept exact, in 1/360 year
EntryDict(f, res_red, analysis, job, hard, nice, oid) ==
    [filename |-> f.filename, error |-> FALSE,
     raw_text |-> f.text, raw_text_redacted |-> res_red.redacted,
     redaction_notes |-> res_red.notes,
     skills |-> analysis.profile.skills,
     education |-> analysis.profile.education,
     experience_ranges |-> analysis.profile.experience_ranges,
     gaps |-> analysis.gaps, overlaps |-> analysis.overlaps,
     total_experience_years |-> analysis.total_experience_months,
     stated_years |-> None,
     flags |-> analysis.flags, anomaly_reasons |-> analysis.anomaly_reasons,
     missing_hard_skills |-> analysis.missing_hard_skills,
     contacts |-> analysis.profile.contacts,
     certifications |-> analysis.profile.certifications,
     education_normalized |-> analysis.profile.education_normalized,
     oid |-> oid, analyzed_for |-> Context(job, hard, nice)]

\* the entry of a document whose text was redacted to res_red: the profile
\* is extracted from the redacted text and analysed against the job
AnalysedEntry(f, res_red, job, hard, nice, oid) ==
    EntryDict(f, res_red,
              analyze_profile_vs_job(extract_profile(res_red.redacted), job,
                                     hard, nice, res_red.redacted),
              job, hard, nice, oid)

\* the try block of the loop over the files, when nothing raises
NewEntry(f, job, hard, nice, oid) ==
    AnalysedEntry(f, redact_sensitive(f.text), job, hard, nice, oid)

\* the de-duplication by filename: the first entry of that filename is
\* replaced, or the new entry is appended
RECURSIVE FirstWithFilename(_, _, _)
FirstWithFilename(cands, filename, i) ==
    IF i > Len(cands) THEN 0
    ELSE IF cands[i].filename = filename THEN i
    ELSE FirstWithFilename(cands, filename, i + 1)
ReplaceOrAppend(cands, new_entry) ==
    LET i == FirstWithFilename(cands, new_entry.filename, 1)
    IN  IF i > 0 THEN [cands EXCEPT ![i] = new_entry] ELSE Append(cands, new_entry)

\* the loop body of a handler that skips a file it cannot handle
HandleFileSkipsFailed(cands, f, job, hard, nice, oid) ==
    IF ~f.size_ok \/ ~f.readable THEN cands
    ELSE ReplaceOrAppend(cands, NewEntry(f, job, hard, nice, oid))

\* one pass of the loop over the uploaded files; readable is FALSE when
\* anything in the try block raises
HandleFile(cands, f, job, hard, nice, oid) ==
    IF ~f.size_ok THEN Append(cands, ErrorDict(f.filename, oid))
    ELSE IF ~f.readable THEN Append(cands, ErrorDict(f.filename, oid))
    ELSE ReplaceOrAppend(cands, NewEntry(f, job, hard, nice, oid))

(***************************************************************************)
(* The numeric part of /api/analytics.  The outcome of each library call   *)
(* is a record whose field ok is FALSE when the call raises.               *)
(***************************************************************************)
\* floor of the square root
ISqrt(n) == CHOOSE q \in 0..n : q * q <= n /\ n < (q + 1) * (q + 1)

\* int(round(n ** 0.5)): the square root of an integer is never half way
\* between two integers, so the rounding mode plays no part
RoundSqrt(n) ==
    LET root == ISqrt(n) IN IF n - root * root > root THEN root + 1 ELSE root

\* a cluster count without the clamp to 2..6
ClusterCountUnclamped(n) == Min(RoundSqrt(n), n)

\* k = min(6, max(2, int(round(n ** 0.5)))); k = min(k, n)
ClusterCount(n) == Min(Min(6, Max(2, RoundSqrt(n))), n)

ZeroCoords(n) == [i \in 1..n |-> [x |-> 0, y |-> 0]]
ZeroLabels(n) == [i \in 1..n |-> 0]
NoNeighbors(n) == [i \in 1..n |-> <<>>]

\* coords without the check of the number of rows and columns
CoordsAnyShape(n, cand_X, pca) ==
    IF cand_X.ok /\ pca.ok THEN pca.XY ELSE ZeroCoords(n)

\* coords: PCA is fitted only on a matrix of two rows and two columns or
\* more; pca is the outcome of toarray and fit_transform
Coords(n, cand_X, pca) ==
    IF cand_X.ok /\ n > 0
    THEN IF pca.ok /\ n >= 2 /\ cand_X.columns >= 2
         THEN pca.XY ELSE ZeroCoords(n)
    ELSE ZeroCoords(n)

\* labels: km is the outcome of toarray and KMeans(n_clusters=k).fit
Labels(n, cand_X, km) ==
    IF cand_X.ok /\ n >= 2
    THEN IF km.ok THEN km.labels_ ELSE ZeroLabels(n)
    ELSE ZeroLabels(n)

\* scores.sort(key=lambda t: t[1], reverse=True): stable, descending, on
\* pairs <<j, sim>>
RECURSIVE InsertBySim(_, _)
InsertBySim(sorted, t) ==
    IF sorted = <<>> THEN <<t>>
    ELSE IF Head(sorted)[2] < t[2]
         THEN <<t>> \o sorted
         ELSE <<Head(sorted)>> \o InsertBySim(Tail(sorted), t)

RECURSIVE SortBySim(_, _)
SortBySim(ts, i) ==
    IF i = 0 THEN <<>> ELSE InsertBySim(SortBySim(ts, i - 1), ts[i])

\* scores = [(j, float(sim[i, j])) for j in range(n) if j != i]
OtherScores(sim, n, i) ==
    [p \in 1..(n - 1) |->
        LET j == IF p < i THEN p ELSE p + 1 IN <<j, sim[i][j]>>]

\* a neighbour list that keeps every other candidate
AllNeighbors(valid, sim, i) ==
    LET n == Len(valid)
        scores == SortBySim(OtherScores(sim, n, i), n - 1)
    IN  [p \in 1..Len(scores) |->
            [filename |-> valid[scores[p][1]].filename, sim |-> scores[p][2]]]

\* neighbors_all[i]: the other candidates by similarity to candidate i,
\* descending, the first five
TopNeighbors(valid, sim, i) ==
    LET n == Len(valid)
        scores == SortBySim(OtherScores(sim, n, i), n - 1)
        top5 == SubSeq(scores, 1, Min(5, Len(scores)))
    IN  [p \in 1..Len(top5) |->
            [filename |-> valid[top5[p][1]].filename, sim |-> top5[p][2]]]

\* neighbors_all whose except branch keeps the lists built before the raise
NeighborsKeptOnFailure(valid, cand_X, cos) ==
    LET n == Len(valid) IN
    IF cand_X.ok /\ n >= 2
    THEN [i \in 1..n |->
            IF cos.ok THEN TopNeighbors(valid, cos.sim, i)
            ELSE IF i = 1 THEN <<[filename |-> valid[2].filename, sim |-> 0]>>
            ELSE <<>>]
    ELSE NoNeighbors(n)

\* neighbors_all: cos is the outcome of cosine_similarity and of the loop
Neighbors(valid, cand_X, cos) ==
    LET n == Len(valid) IN
    IF cand_X.ok /\ n >= 2
    THEN IF cos.ok THEN [i \in 1..n |-> TopNeighbors(valid, cos.sim, i)]
         ELSE NoNeighbors(n)
    ELSE NoNeighbors(n)

\* outcomes of PCA.fit_transform on n rows
XYChoices(n) ==
    {[i \in 1..n |-> [x |-> i, y |-> n - i]],
     [i \in 1..n |-> [x |-> 0 - i, y |-> 1]]}

\* outcomes of KMeans.fit: one label of 0..k-1 per row; every labelling of
\* a cohort of up to three, and labellings by position of a larger one
LabelChoices(n, k) ==
    IF n <= 3 THEN [1..n -> 0..(k - 1)]
    ELSE {[i \in 1..n |-> (a * i + b) % k] : a \in 0..1, b \in 0..(k - 1)}

\* outcomes of cosine_similarity on n rows: symmetric, 1 on the diagonal;
\* all rows alike, nearer rows more alike, farther rows more alike, and
\* values with ties
SimChoices(n) ==
    LET Dist(i, j) == IF i < j THEN j - i ELSE i - j
    IN  {[i \in 1..n |-> [j \in 1..n |-> IF i = j THEN One ELSE One \div 2]],
         [i \in 1..n |-> [j \in 1..n |-> One - Dist(i, j) * (One \div 10)]],
         [i \in 1..n |-> [j \in 1..n |->
             IF i = j THEN One ELSE Dist(i, j) * (One \div 10)]],
         [i \in 1..n |-> [j \in 1..n |->
             IF i = j THEN One ELSE ((i + j) % 3) * (One \div 4)]]}

\* the three lists as they stand before the attach loop, for the outcomes
\* cand_X, pca, km and cos of the library calls
AnalyticsAll(valid, cand_X, pca, km, cos) ==
    LET n == Len(valid)
        coords == Coords(n, cand_X, pca)
        labels == Labels(n, cand_X, km)
        neighbors_all == Neighbors(valid, cand_X, cos)
    IN  [i \in 1..n |->
            [pca |-> coords[i], cluster_id |-> labels[i],
             neighbors |-> neighbors_all[i]]]

\* the analytics attached to the i-th of n valid candidates in the session
\* model: every library call raises, or every call succeeds with one fixed
\* outcome (labels by position among k clusters)
AnalyticsOf(valid, i, fitted) ==
    LET n == Len(valid)
        k == ClusterCount(n)
    IN  AnalyticsAll(valid,
                     [ok |-> fitted, columns |-> 2],
                     [ok |-> fitted, XY |-> [p \in 1..n |-> [x |-> p, y |-> n - p]]],
                     [ok |-> fitted, labels_ |-> [p \in 1..n |-> (p - 1) % k]],
                     [ok |-> fitted,
                      sim |-> [p \in 1..n |-> [j \in 1..n |->
                                 IF p = j THEN One ELSE One \div 2]]])[i]

\* c["pca"] = ...; c["cluster_id"] = ...; c["neighbors"] = ...
Attach(c, a) ==
    [k \in DOMAIN c \cup {"pca", "cluster_id", "neighbors"} |->
        IF k \in DOMAIN a THEN a[k] ELSE c[k]]

\* a list as it reads after the dict objects of valid got their analytics
SeenAfterAttach(list, valid, fitted) ==
    [p \in 1..Len(list) |->
        IF \E i \in 1..Len(valid) : valid[i].oid = list[p].oid
        THEN LET i == CHOOSE i \in 1..Len(valid) : valid[i].oid = list[p].oid
             IN  Attach(list[p], AnalyticsOf(valid, i, fitted))
        ELSE list[p]]

(***************************************************************************)
(* The steps of a request.  /api/process and /api/analytics share the      *)
(* validation, the bucket handling and the loop over the files; they       *)
(* differ from the write-back on.                                          *)
(***************************************************************************)
MaxRequests == 2

non_app_vars == <<an_vars, sc_vars, more_vars>>

\* the form is parsed and validated; a 400 response ends the request
Receive(r, inp) ==
    /\ req[r].pc = "idle"
    /\ served < MaxRequests
    /\ LET job == Strip(inp.form.job_description)
           jd_red == redact_sensitive(job).redacted
           hard == ParseSkills(Strip(inp.form.hard_skills))
           nice == ParseSkills(Strip(inp.form.nice_skills))
           sess_id == Strip(inp.form.session_id)
           verdict == Validate(job, inp.files, sess_id)
           received == [IdleRequest EXCEPT
                           !.serial = served + 1, !.endpoint = inp.endpoint,
                           !.form = inp.form, !.files = inp.files,
                           !.pre = [SESSIONS |-> SESSIONS, buckets |-> buckets]]
       IN  req' = [req EXCEPT ![r] =
                IF verdict # "ok"
                THEN [received EXCEPT
                         !.pc = "done",
                         !.response = [status |-> 400, error |-> verdict,
                                       results |-> <<>>]]
                ELSE [received EXCEPT
                         !.pc = IF sess_id # <<>> THEN "get" ELSE "files",
                         !.job_text_redacted = jd_red,
                         !.hard_skills = hard, !.nice_skills = nice,
                         !.sess_id = sess_id, !.idx = 1]]
    /\ served' = served + 1
    /\ UNCHANGED <<SESSIONS, buckets, non_app_vars>>

\* bucket = SESSIONS.get(sess_id)
GetBucket(r) ==
    /\ req[r].pc = "get"
    /\ LET b == SessionsGet(SESSIONS, req[r].sess_id)
       IN  req' = [req EXCEPT ![r].bucket = b,
                              ![r].pc = IF b = NoBucket THEN "create" ELSE "compare"]
    /\ UNCHANGED <<SESSIONS, buckets, served, non_app_vars>>

\* bucket = {...}; SESSIONS[sess_id] = bucket
CreateBucket(r) ==
    /\ req[r].pc = "create"
    /\ LET b == req[r].serial
       IN  /\ buckets' = DictSet(buckets, b,
                            [job_text |-> req[r].job_text_redacted,
                             hard_skills |-> req[r].hard_skills,
                             nice_skills |-> req[r].nice_skills,
                             candidates |-> <<>>])
           /\ SESSIONS' = DictSet(SESSIONS, req[r].sess_id, b)
           /\ req' = [req EXCEPT ![r].bucket = b, ![r].pc = "copy"]
    /\ UNCHANGED <<served, non_app_vars>>

\* the comparison of the stored context with the request's
CompareContext(r) ==
    /\ req[r].pc = "compare"
    /\ req' = [req EXCEPT ![r].pc =
                 IF ContextChanged(buckets[req[r].bucket], req[r].job_text_redacted,
                                   req[r].hard_skills, req[r].nice_skills)
                 THEN "reset_job" ELSE "copy"]
    /\ UNCHANGED <<SESSIONS, buckets, served, non_app_vars>>

\* bucket['job_text'] = job_text_redacted
ResetJobText(r) ==
    /\ req[r].pc = "reset_job"
    /\ buckets' = [buckets EXCEPT ![req[r].bucket].job_text =
                                      req[r].job_text_redacted]
    /\ req' = [req EXCEPT ![r].pc = "reset_hard"]
    /\ UNCHANGED <<SESSIONS, served, non_app_vars>>

\* bucket['hard_skills'] = hard_skills
ResetHardSkills(r) ==
    /\ req[r].pc = "reset_hard"
    /\ buckets' = [buckets EXCEPT ![req[r].bucket].hard_skills = req[r].hard_skills]
    /\ req' = [req EXCEPT ![r].pc = "reset_nice"]
    /\ UNCHANGED <<SESSIONS, served, non_app_vars>>

\* bucket['nice_skills'] = nice_skills
ResetNiceSkills(r) ==
    /\ req[r].pc = "reset_nice"
    /\ buckets' = [buckets EXCEPT ![req[r].bucket].nice_skills = req[r].nice_skills]
    /\ req' = [req EXCEPT ![r].pc = "reset_cands"]
    /\ UNCHANGED <<SESSIONS, served, non_app_vars>>

\* bucket['candidates'] = []
ResetCandidates(r) ==
    /\ req[r].pc = "reset_cands"
    /\ buckets' = [buckets EXCEPT ![req[r].bucket].candidates = <<>>]
    /\ req' = [req EXCEPT ![r].pc = "copy"]
    /\ UNCHANGED <<SESSIONS, served, non_app_vars>>

\* candidates = list(bucket['candidates'])
CopyCandidates(r) ==
    /\ req[r].pc = "copy"
    /\ req' = [req EXCEPT ![r].candidates = buckets[req[r].bucket].candidates,
                          ![r].pc = "files"]
    /\ UNCHANGED <<SESSIONS, buckets, served, non_app_vars>>

\* one pass of "for f in files"
ProcessFile(r) ==
    /\ req[r].pc = "files"
    /\ req[r].idx <= Len(req[r].files)
    /\ req' = [req EXCEPT
                 ![r].candidates =
                     HandleFile(@, req[r].files[req[r].idx],
                                req[r].job_text_redacted, req[r].hard_skills,
                                req[r].nice_skills,
                                <<req[r].serial, req[r].idx>>),
                 ![r].files_read = @ + 1,
                 ![r].idx = @ + 1]
    /\ UNCHANGED <<SESSIONS, buckets, served, non_app_vars>>

\* /api/process: score_candidates, then the write-back through the bucket
\* the request holds, then the response
RankAndStore(r) ==
    /\ req[r].pc = "files"
    /\ req[r].idx > Len(req[r].files)
    /\ req[r].endpoint = "process"
    /\ \E sims \in CosineChoices(req[r].candidates) :
         req' = [req EXCEPT
                   ![r].response =
                       [status |-> 200, error |-> None,
                        results |-> score_candidates(req[r].job_text_redacted,
                                       req[r].candidates, req[r].hard_skills,
                                       req[r].nice_skills, sims)],
                   ![r].pc = "done"]
    /\ buckets' = IF req[r].bucket # NoBucket
                  THEN [buckets EXCEPT ![req[r].bucket].candidates =
                                           req[r].candidates]
                  ELSE buckets
    /\ UNCHANGED <<SESSIONS, served, non_app_vars>>

\* /api/analytics: SESSIONS[sess_id]['candidates'] = raw_candidates
StoreCandidates(r) ==
    /\ req[r].pc = "files"
    /\ req[r].idx > Len(req[r].files)
    /\ req[r].endpoint = "analytics"
    /\ buckets' = IF req[r].sess_id # <<>>
                  THEN [buckets EXCEPT ![SESSIONS[req[r].sess_id]].candidates =
                                           req[r].candidates]
                  ELSE buckets
    /\ req' = [req EXCEPT ![r].pc = "analyze"]
    /\ UNCHANGED <<SESSIONS, served, non_app_vars>>

\* /api/analytics: the error entries are filtered out, the analytics are
\* attached to the candidate dicts, and the cohort is scored
Analyze(r) ==
    /\ req[r].pc = "analyze"
    /\ LET valid == SelectSeq(req[r].candidates, LAMBDA c : ~c.error)
       IN  IF valid = <<>>
           THEN /\ req' = [req EXCEPT
                             ![r].response = [status |-> 200, error |-> None,
                                              results |-> <<>>],
                             ![r].pc = "done"]
                /\ UNCHANGED buckets
           ELSE \E fitted \in BOOLEAN :
                  LET attached == SeenAfterAttach(valid, valid, fitted)
                      sims == IF fitted
                              THEN [i \in 1..Len(valid) |->
                                      IF TextSource(valid[i]) # <<>> THEN One ELSE 0]
                              ELSE <<>>
                  IN  /\ buckets' =
                            [b \in DOMAIN buckets |->
                               [buckets[b] EXCEPT !.candidates =
                                   SeenAfterAttach(@, valid, fitted)]]
                      /\ req' =
                            [q \in DOMAIN req |->
                               IF q = r
                               THEN [req[r] EXCEPT
                                       !.candidates =
                                           SeenAfterAttach(@, valid, fitted),
                                       !.response =
                                           [status |-> 200, error |-> None,
                                            results |-> score_candidates(
                                                req[r].job_text_redacted, attached,
                                                req[r].hard_skills,
                                                req[r].nice_skills, sims)],
                                       !.pc = "done"]
                               ELSE [req[q] EXCEPT !.candidates =
                                       SeenAfterAttach(@, valid, fitted)]]
    /\ UNCHANGED <<SESSIONS, served, non_app_vars>>

\* the response is sent and the handler's locals are gone
Return(r) ==
    /\ req[r].pc = "done"
    /\ req' = [req EXCEPT ![r] = IdleRequest]
    /\ UNCHANGED <<SESSIONS, buckets, served, non_app_vars>>

(***************************************************************************)
(* Inputs of the requests.                                                 *)
(***************************************************************************)
\* resume text "her sql": redacted to "[REDACTED] sql"
T_her_sql == <<"h", "e", "r", " ", "s", "q", "l">>
\* job descriptions as posted: "need go", "he go", " she go " (the last two
\* are equal once stripped and redacted), a blank one
J_need_go == <<"n", "e", "e", "d", " ", "g", "o">>
J_he_go == <<"h", "e", " ", "g", "o">>
J_she_go == <<" ", "s", "h", "e", " ", "g", "o", " ">>
J_blank == <<" ">>
\* skill fields as posted: "go", "go, sql", " go ," and "aws"
H_go == <<"g", "o">>
H_go_sql == <<"g", "o", ",", " ", "s", "q", "l">>
H_go_sp == <<" ", "g", "o", " ", ",">>
N_aws == <<"a", "w", "s">>
\* session id "s1"
SID_s1 == <<"s", "1">>

Form(job, hard, nice) ==
    [job_description |-> job, hard_skills |-> hard, nice_skills |-> nice,
     session_id |-> <<>>]

Forms ==
    {Form(J_need_go, H_go, <<>>),
     Form(J_need_go, H_go_sql, <<>>),
     Form(J_need_go, H_go, N_aws),
     Form(J_he_go, H_go, <<>>),
     Form(J_she_go, H_go_sp, <<>>),
     Form(J_blank, H_go, <<>>),
     Form(<<>>, <<>>, <<>>)}

\* an uploaded file: size_ok is len(content) <= MAX_CONTENT_LENGTH, readable
\* is whether extract_text_from_file returns, text is what it returns
Upload(filename, size_ok, readable, text) ==
    [filename |-> filename, size_ok |-> size_ok, readable |-> readable,
     text |-> text]
FileA == Upload("a.pdf", TRUE, TRUE, T_go_aws)
FileA2 == Upload("a.pdf", TRUE, TRUE, T_her_sql)
FileB == Upload("b.pdf", TRUE, TRUE, T_django)
FileBig == Upload("big.pdf", FALSE, TRUE, <<>>)
\* a second file named a.pdf, which cannot be read
FileABad == Upload("a.pdf", TRUE, FALSE, <<>>)
\* an empty text file: extract_text_from_file returns ""
FileEmpty == Upload("e.txt", TRUE, TRUE, <<>>)

FileLists ==
    {<<>>, <<FileA>>, <<FileB, FileBig>>, <<FileA2, FileEmpty>>,
     <<FileABad, FileA>>}

Endpoints == {"process", "analytics"}

Input(endpoint, form, session_id, files) ==
    [endpoint |-> endpoint, form |-> [form EXCEPT !.session_id = session_id],
     files |-> files]

\* the requests of the one-at-a-time specification
SeqInputs ==
    {Input(e, f, s, fl) : e \in Endpoints, f \in Forms, s \in {<<>>, SID_s1},
                          fl \in FileLists}

\* the requests of the two-thread specification: one session, two contexts,
\* two documents
ConcInputs ==
    {Input(e, f, SID_s1, fl) :
        e \in Endpoints,
        f \in {Form(J_need_go, H_go, <<>>), Form(J_need_go, H_go_sql, <<>>)},
        fl \in {<<FileA>>, <<FileB>>}}

(***************************************************************************)
(* SpecSeq: requests served one at a time, as by a single-threaded server. *)
(***************************************************************************)
Workers == {1}

InitSeq ==
    /\ SESSIONS = <<>> /\ buckets = <<>>
    /\ req = [r \in Workers |-> IdleRequest]
    /\ served = 0
    /\ AnIdle /\ ScIdle /\ MoreIdle

Step(r) ==
    \/ GetBucket(r) \/ CreateBucket(r) \/ CompareContext(r)
    \/ ResetJobText(r) \/ ResetHardSkills(r) \/ ResetNiceSkills(r)
    \/ ResetCandidates(r) \/ CopyCandidates(r) \/ ProcessFile(r)
    \/ RankAndStore(r) \/ StoreCandidates(r) \/ Analyze(r)

NextSeq ==
    \E r \in Workers :
        \/ \E inp \in SeqInputs : Receive(r, inp)
        \/ Step(r)
        \/ Return(r)

SpecSeq == InitSeq /\ [][NextSeq]_vars

(***************************************************************************)
(* SpecConc: two requests served by two threads (run.py starts the server  *)
(* with threaded=True); a thread switch can fall between any two steps.    *)
(***************************************************************************)
Threads == {1, 2}

InitConc ==
    /\ SESSIONS = <<>> /\ buckets = <<>>
    /\ req = [r \in Threads |-> IdleRequest]
    /\ served = 0
    /\ AnIdle /\ ScIdle /\ MoreIdle

NextConc ==
    \E r \in Threads :
        \/ \E inp \in ConcInputs : Receive(r, inp)
        \/ Step(r)

SpecConc == InitConc /\ [][NextConc]_vars

(***************************************************************************)
(* Claims about the session bucket and the validation of a request.        *)
(***************************************************************************)
\* the filenames a request uploads
UploadedNames(q) == {q.files[i].filename : i \in 1..Len(q.files)}

\* a finished request that was accepted under a session key
AcceptedInSession(q) ==
    q.pc = "done" /\ q.response.status = 200 /\ q.sess_id # <<>>

\* the bucket stored under the request's session key when it was received
HadBucket(q) == q.sess_id \in DOMAIN q.pre.SESSIONS
OldBucket(q) == q.pre.buckets[q.pre.SESSIONS[q.sess_id]]
\* the bucket stored under it now
NowBucket(q) == buckets[SESSIONS[q.sess_id]]

\* the stored job text and skill lists equal the request's
SameContext(q) ==
    /\ HadBucket(q)
    /\ OldBucket(q).job_text = q.job_text_redacted
    /\ OldBucket(q).hard_skills = q.hard_skills
    /\ OldBucket(q).nice_skills = q.nice_skills

\* every upload of the request has an entry in the list, built by the request
UploadsIn(q, list) ==
    \A i \in 1..Len(q.files) :
        \E j \in 1..Len(list) : /\ list[j].filename = q.files[i].filename
                                /\ list[j].oid[1] = q.serial

C6_WitnessReset ==
    \E r \in DOMAIN req :
        LET q == req[r] IN
        /\ AcceptedInSession(q) /\ HadBucket(q) /\ ~SameContext(q)
        /\ OldBucket(q).job_text = q.job_text_redacted
        /\ OldBucket(q).candidates # <<>>
        /\ q.files # <<>>
        /\ NowBucket(q).candidates # <<>>

\* C7: two requests on one session key served by two threads.  Once both
\* are done, every candidate stored in the bucket was analysed against the
\* job text and the skill lists the bucket holds.
C7_StoredCandidatesMatchStoredContext ==
    (\A r \in DOMAIN req : req[r].pc = "done" /\ req[r].response.status = 200) =>
        \A s \in DOMAIN SESSIONS :
            LET b == buckets[SESSIONS[s]] IN
            \A i \in 1..Len(b.candidates) :
                ~b.candidates[i].error =>
                    b.candidates[i].analyzed_for =
                        Context(b.job_text, b.hard_skills, b.nice_skills)

\* C8: two requests with one session key, the same job text and skill lists
\* and different documents, served by two threads.  Once both are done the
\* bucket holds an entry for every document of either request.
C8_BothRequestsEntriesStored ==
    \A r1, r2 \in DOMAIN req :
        LET p == req[r1]
            q == req[r2]
        IN  ( /\ r1 # r2
              /\ AcceptedInSession(p) /\ AcceptedInSession(q)
              /\ p.sess_id = q.sess_id
              /\ p.job_text_redacted = q.job_text_redacted
              /\ p.hard_skills = q.hard_skills
              /\ p.nice_skills = q.nice_skills
              /\ UploadedNames(p) \cap UploadedNames(q) = {} ) =>
            \A name \in UploadedNames(p) \cup UploadedNames(q) :
                \E j \in 1..Len(NowBucket(p).candidates) :
                    NowBucket(p).candidates[j].filename = name

\* the store is as it was when the request was received
StoreUntouched(q) ==
    SESSIONS = q.pre.SESSIONS /\ buckets = q.pre.buckets

\* a request answered with a validation error, nothing read, nothing ranked
Rejected(q) ==
    /\ q.response.status = 400
    /\ q.response.results = <<>>
    /\ q.files_read = 0
    /\ StoreUntouched(q)

\* C9: a request whose job description is empty once stripped is answered
\* with status 400, no file of it has been read and the session store is as
\* it was, whatever session key and files it carries.
C9_EmptyJobDescriptionRejected ==
    \A r \in DOMAIN req :
        LET q == req[r] IN
        (q.pc = "done" /\ Strip(q.form.job_description) = <<>>) => Rejected(q)

\* a blank (not missing) job description posted with a session key that has
\* a bucket and with files
C9_Witness ==
    \E r \in DOMAIN req :
        LET q == req[r] IN
        /\ q.pc = "done"
        /\ q.form.job_description # <<>>
        /\ Strip(q.form.job_description) = <<>>
        /\ q.form.session_id \in DOMAIN SESSIONS
        /\ buckets[SESSIONS[q.form.session_id]].candidates # <<>>
        /\ q.files # <<>>
        /\ q.response.status = 400

\* C10 as stated: every request without files is answered with a validation
\* error, nothing is ranked and the session store is as it was.
C10_EmptyBatchRejected ==
    \A r \in DOMAIN req :
        LET q == req[r] IN
        (q.pc = "done" /\ q.files = <<>>) => Rejected(q)

\* C10, amended: a request without files and without a session key is
\* answered with a validation error, nothing is ranked and the store is as
\* it was; a request without files that carries a session key and a job
\* description is accepted: the bucket of that key holds the request's job
\* text and skill lists, and the candidates it accumulated are ranked
\* (/api/process ranks every entry, /api/analytics the entries without error).
C10_EmptyBatchRejectedWithoutSessionKey ==
    \A r \in DOMAIN req :
        LET q == req[r] IN
        (q.pc = "done" /\ q.files = <<>>) =>
            IF Strip(q.form.session_id) = <<>>
               \/ Strip(q.form.job_description) = <<>>
            THEN Rejected(q)
            ELSE /\ AcceptedInSession(q)
                 /\ q.files_read = 0
                 /\ NowBucket(q).job_text = q.job_text_redacted
                 /\ NowBucket(q).hard_skills = q.hard_skills
                 /\ NowBucket(q).nice_skills = q.nice_skills
                 /\ Len(q.response.results) =
                        Len(SelectSeq(NowBucket(q).candidates,
                                      LAMBDA c : q.endpoint = "process" \/ ~c.error))

\* a request with a job description, no files and no session key, rejected
C10_Witness ==
    \E r \in DOMAIN req :
        LET q == req[r] IN
        /\ q.pc = "done" /\ q.files = <<>>
        /\ Strip(q.form.job_description) # <<>>
        /\ Strip(q.form.session_id) = <<>>
        /\ q.response.status = 400

\* a request with a session key and no files that was accepted and ranked
\* the candidates accumulated under that key
C10_WitnessAccepted ==
    \E r \in DOMAIN req :
        LET q == req[r] IN
        /\ q.pc = "done" /\ q.files = <<>>
        /\ AcceptedInSession(q)
        /\ q.response.results # <<>>

(***************************************************************************)
(* Claims about the documents of one batch.                                *)
(***************************************************************************)
\* the upload cannot be read, extracted or analysed
Fails(f) == ~f.size_ok \/ ~f.readable

\* the number of entries of a list that are the object oid
EntriesOf(list, oid) == Cardinality({p \in 1..Len(list) : list[p].oid = oid})

\* a later file of the batch has the same filename and is handled without
\* failure, so the de-duplication puts its entry in the place of this one
ReplacedLater(q, i) ==
    \E j \in (i + 1)..Len(q.files) :
        q.files[j].filename = q.files[i].filename /\ ~Fails(q.files[j])

\* the i-th document of a finished request is isolated: the request's list
\* holds exactly one entry built for it, an error entry {filename, error}
\* if the document failed and an analysed entry otherwise, and the ranking
\* holds that entry (/api/analytics ranks the analysed entries only)
DocumentIsolated(q, i) ==
    LET oid == <<q.serial, i>>
        mine == {p \in 1..Len(q.candidates) : q.candidates[p].oid = oid}
    IN  /\ Cardinality(mine) = 1
        /\ \A p \in mine :
              /\ q.candidates[p].filename = q.files[i].filename
              /\ q.candidates[p].error = Fails(q.files[i])
        /\ (q.endpoint = "process" \/ ~Fails(q.files[i])) =>
              EntriesOf(q.response.results, oid) = 1

\* a finished request that carried a job description and documents
BatchDone(q) ==
    q.pc = "done" /\ Strip(q.form.job_description) # <<>> /\ q.files # <<>>

\* C11 as stated: a request with a batch of documents succeeds, and each
\* document of the batch has exactly one entry, an error entry if it failed
\* and an analysed and ranked entry otherwise.
C11_EveryDocumentIsolated ==
    \A r \in DOMAIN req :
        LET q == req[r] IN
        BatchDone(q) =>
            /\ q.response.status = 200
            /\ \A i \in 1..Len(q.files) : DocumentIsolated(q, i)

\* C11, amended: a request with a batch of documents succeeds, and each
\* document whose filename is not carried by a later, successfully handled
\* document of the same batch has exactly one entry, an error entry if it
\* failed and an analysed and ranked entry otherwise.
C11_DocumentIsolatedUnlessReplaced ==
    \A r \in DOMAIN req :
        LET q == req[r] IN
        BatchDone(q) =>
            /\ q.response.status = 200
            /\ \A i \in 1..Len(q.files) :
                  ~ReplacedLater(q, i) => DocumentIsolated(q, i)

\* a batch of a readable and an unreadable document, both with an entry
C11_Witness ==
    \E r \in DOMAIN req :
        LET q == req[r] IN
        /\ BatchDone(q) /\ q.response.status = 200
        /\ \E i, j \in 1..Len(q.files) :
              /\ Fails(q.files[i]) /\ ~Fails(q.files[j])
              /\ ~ReplacedLater(q, i)
              /\ EntriesOf(q.candidates, <<q.serial, i>>) = 1
              /\ EntriesOf(q.response.results, <<q.serial, j>>) = 1

\* an unreadable document followed by a readable one of the same name,
\* whose entry has taken the place of the error entry
C11_WitnessReplaced ==
    \E r \in DOMAIN req :
        LET q == req[r] IN
        /\ BatchDone(q) /\ q.response.status = 200
        /\ \E i \in 1..Len(q.files) :
              /\ Fails(q.files[i]) /\ ReplacedLater(q, i)
              /\ EntriesOf(q.candidates, <<q.serial, i>>) = 0

(***************************************************************************)
(* SpecAnalytics: /api/analytics from the filter of the error entries to   *)
(* the response, one step per library call.                                *)
(***************************************************************************)
FileNames ==
    <<"a.pdf", "b.pdf", "c.pdf", "d.pdf", "e.pdf", "f.pdf", "g.pdf", "h.pdf",
      "i.pdf">>

\* the i-th analysed candidate of a cohort: texts, flags and gaps vary
CohortCand(i) ==
    Cand(FileNames[i], IF i % 2 = 1 THEN T_go_aws ELSE T_django, <<>>, <<>>, <<>>,
         NoContacts, IF i % 3 = 0 THEN <<FLAG_GAPS>> ELSE <<>>, <<ARange>>,
         IF i % 3 = 0 THEN <<AGap>> ELSE <<>>)

\* raw_candidates: m analysed candidates, with an error entry after the
\* first of them when e = 1
RawCohort(m, e) ==
    LET valid == [i \in 1..m |-> CohortCand(i)]
        cut == Min(1, m)
    IN  IF e = 1
        THEN SubSeq(valid, 1, cut) \o <<ErrorEntry("x.exe")>> \o SubSeq(valid, cut + 1, m)
        ELSE valid

InitAnalytics ==
    /\ \E job \in JobTexts, m \in 0..MaxCohort, e \in 0..1 :
          analytics = [IdleAnalytics EXCEPT
                         !.pc = "filter", !.job_text_redacted = job,
                         !.hard_skills = <<S_go, S_sql>>, !.nice_skills = <<S_aws>>,
                         !.raw_candidates = RawCohort(m, e)]
    /\ AnIdle /\ ScIdle /\ AppIdle /\ redaction = IdleRedaction
    /\ analyzing = IdleAnalysis

rest_vars == <<an_vars, sc_vars, app_vars, redaction, analyzing>>

\* valid_candidates = [c for c in raw_candidates if 'error' not in c], and
\* the early return for an empty cohort
FilterErrors ==
    /\ analytics.pc = "filter"
    /\ LET valid == SelectSeq(analytics.raw_candidates, LAMBDA c : ~c.error)
       IN  analytics' =
             [analytics EXCEPT
                !.valid_candidates = valid, !.n = Len(valid),
                !.response = IF valid = <<>>
                             THEN [status |-> 200, results |-> <<>>] ELSE @,
                !.pc = IF valid = <<>> THEN "done" ELSE "vectorize"]
    /\ UNCHANGED rest_vars

\* X = VECT.fit_transform(docs); cand_X = X[1:], or None when it raises
Vectorize ==
    /\ analytics.pc = "vectorize"
    /\ \E cx \in {NoMatrix, [ok |-> TRUE, columns |-> 1], [ok |-> TRUE, columns |-> 3]} :
          analytics' =
             [analytics EXCEPT
                !.cand_X = cx,
                !.attempted = @ \cup {"vectorization"},
                !.failed = IF cx.ok THEN @ ELSE @ \cup {"vectorization"},
                !.pc = "pca"]
    /\ UNCHANGED rest_vars

\* the PCA block
Project ==
    /\ analytics.pc = "pca"
    /\ LET a == analytics
           tried == a.cand_X.ok /\ a.n > 0
       IN  \E pca \in {[ok |-> FALSE, XY |-> <<>>]}
                      \cup {[ok |-> TRUE, XY |-> xy] : xy \in XYChoices(a.n)} :
             analytics' =
               [analytics EXCEPT
                  !.coords = Coords(a.n, a.cand_X, pca),
                  !.attempted = IF tried THEN @ \cup {"projection"} ELSE @,
                  !.failed = IF tried /\ ~pca.ok THEN @ \cup {"projection"} ELSE @,
                  !.pc = "kmeans"]
    /\ UNCHANGED rest_vars

\* the KMeans block
Cluster ==
    /\ analytics.pc = "kmeans"
    /\ LET a == analytics
           tried == a.cand_X.ok /\ a.n >= 2
           k == ClusterCount(a.n)
       IN  \E km \in {[ok |-> FALSE, labels_ |-> <<>>]}
                     \cup {[ok |-> TRUE, labels_ |-> l] :
                             l \in IF tried THEN LabelChoices(a.n, k) ELSE {<<>>}} :
             analytics' =
               [analytics EXCEPT
                  !.k = IF tried THEN k ELSE @,
                  !.labels = Labels(a.n, a.cand_X, km),
                  !.attempted = IF tried THEN @ \cup {"clustering"} ELSE @,
                  !.failed = IF tried /\ ~km.ok THEN @ \cup {"clustering"} ELSE @,
                  !.pc = "neighbors"]
    /\ UNCHANGED rest_vars

\* the nearest-neighbour block
FindNeighbors ==
    /\ analytics.pc = "neighbors"
    /\ LET a == analytics
           tried == a.cand_X.ok /\ a.n >= 2
       IN  \E cos \in {[ok |-> FALSE, sim |-> <<>>]}
                      \cup {[ok |-> TRUE, sim |-> m] : m \in SimChoices(a.n)} :
             analytics' =
               [analytics EXCEPT
                  !.sim = IF tried THEN cos.sim ELSE @,
                  !.neighbors_all = Neighbors(a.valid_candidates, a.cand_X, cos),
                  !.attempted = IF tried THEN @ \cup {"similarity"} ELSE @,
                  !.failed = IF tried /\ ~cos.ok THEN @ \cup {"similarity"} ELSE @,
                  !.pc = "attach"]
    /\ UNCHANGED rest_vars

\* success = 0.55*overall + 0.15*trend + 0.15*hard_cov + 0.10*semantic
\*           - 0.05*penalties, clamped
SuccessScore(r) ==
    LET penalties == (IF r.gaps # <<>> THEN Frac(30, 100) ELSE 0)
                     + (IF "overlaps" \in DOMAIN r /\ r.overlaps # <<>>
                        THEN Frac(20, 100) ELSE 0)
                     + (IF FLAG_EXAG \in Range(r.flags) THEN Frac(20, 100) ELSE 0)
    IN  clamp01((55 * r.overall_score + 15 * r.trend_score
                 + 15 * r.hard_skill_coverage + 10 * r.semantic_score
                 - 5 * penalties) \div 100)

\* the attach loop, score_candidates and the success score; the vectoriser
\* is fitted on the same documents again, so it raises here exactly when it
\* raised in Vectorize
AttachAndScore ==
    /\ analytics.pc = "attach"
    /\ LET a == analytics
           attached == [i \in 1..a.n |->
                          Attach(a.valid_candidates[i],
                                 [pca |-> a.coords[i], cluster_id |-> a.labels[i],
                                  neighbors |-> a.neighbors_all[i]])]
       IN  \E sims \in IF a.cand_X.ok THEN CosineChoices(attached) ELSE {<<>>} :
             \E ranked \in {score_candidates(a.job_text_redacted, attached,
                                               a.hard_skills, a.nice_skills, sims)} :
                 analytics' =
                   [analytics EXCEPT
                      !.valid_candidates = attached,
                      !.response =
                          [status |-> 200,
                           results |-> [p \in 1..Len(ranked) |->
                                          Merged(ranked[p],
                                                 [success_score |->
                                                     SuccessScore(ranked[p])])]],
                      !.pc = "done"]
    /\ UNCHANGED rest_vars

NextAnalytics ==
    FilterErrors \/ Vectorize \/ Project \/ Cluster \/ FindNeighbors \/ AttachAndScore

SpecAnalytics == InitAnalytics /\ [][NextAnalytics]_vars

(***************************************************************************)
(* Claims about the numeric part of /api/analytics.                        *)
(***************************************************************************)
ZeroPca == [x |-> 0, y |-> 0]

\* the request has answered for a cohort of at least one valid candidate
Answered == analytics.pc = "done" /\ analytics.n > 0

\* the positions of the ranking that hold the i-th valid candidate
RankedAt(i) ==
    {p \in 1..Len(analytics.response.results) :
        analytics.response.results[p].filename =
            analytics.valid_candidates[i].filename}

\* C12: in /api/analytics a raise of the vectoriser, of the projection, of
\* the clustering or of the similarity computation never fails the request:
\* the response has status 200 and ranks every valid candidate once, and the
\* output of a failed step is its default for every candidate (coordinates
\* (0,0), cluster 0, no neighbours; with the vectoriser failed all of these
\* and semantic_score 0).
C12_FailedStepDegradesToDefault ==
    Answered =>
        LET a == analytics
            res == a.response.results
        IN  /\ a.response.status = 200
            /\ Len(res) = a.n
            /\ \A i \in 1..a.n : Cardinality(RankedAt(i)) = 1
            /\ "vectorization" \in a.failed =>
                  \A p \in 1..Len(res) :
                      /\ res[p].pca = ZeroPca /\ res[p].cluster_id = 0
                      /\ res[p].neighbors = <<>> /\ res[p].semantic_score = 0
            /\ "projection" \in a.failed =>
                  \A p \in 1..Len(res) : res[p].pca = ZeroPca
            /\ "clustering" \in a.failed =>
                  \A p \in 1..Len(res) : res[p].cluster_id = 0
            /\ "similarity" \in a.failed =>
                  \A p \in 1..Len(res) : res[p].neighbors = <<>>

\* the similarity computation raised after the projection and the
\* clustering had succeeded with results other than the defaults
C12_Witness ==
    /\ Answered
    /\ analytics.failed = {"similarity"}
    /\ \E p \in 1..Len(analytics.response.results) :
          /\ analytics.response.results[p].pca # ZeroPca
          /\ analytics.response.results[p].cluster_id # 0
          /\ analytics.response.results[p].neighbors = <<>>

\* the vectoriser raised for a cohort of two or more
C12_WitnessVectorizer ==
    /\ Answered /\ analytics.n >= 2
    /\ "vectorization" \in analytics.failed
    /\ Len(analytics.response.results) = analytics.n

\* C13: with no valid candidate /api/analytics answers with an empty result
\* list and status 200; with one valid candidate that candidate gets pca
\* (0,0), cluster_id 0 and no neighbours.
C13_DegenerateCohorts ==
    analytics.pc = "done" =>
        LET a == analytics
            res == a.response.results
        IN  /\ a.n = 0 => a.response.status = 200 /\ res = <<>>
            /\ a.n = 1 =>
                  /\ a.response.status = 200 /\ Len(res) = 1
                  /\ res[1].pca = ZeroPca /\ res[1].cluster_id = 0
                  /\ res[1].neighbors = <<>>

\* a single valid candidate, the vectoriser having returned a matrix of
\* several columns
C13_Witness ==
    /\ analytics.pc = "done" /\ analytics.n = 1
    /\ analytics.cand_X.ok /\ analytics.cand_X.columns >= 2
    /\ Len(analytics.response.results) = 1

\* a batch of error entries only
C13_WitnessEmpty ==
    /\ analytics.pc = "done" /\ analytics.n = 0
    /\ analytics.raw_candidates # <<>>
    /\ analytics.response.results = <<>>

\* r is the integer nearest to the square root of n
NearestToSqrt(n, r) ==
    (2 * r - 1) * (2 * r - 1) < 4 * n /\ 4 * n < (2 * r + 1) * (2 * r + 1)

\* C14: for every candidate count n of 2..50 the cluster count k is the
\* integer nearest to sqrt(n) clamped to 2..6 and capped at n, so
\* 2 <= k <= min(6, n); in a request that clusters, k is that count and
\* every cluster_id lies in 0..k-1; with fewer than two candidates no
\* clustering is attempted and every cluster_id is 0.
C14_ClusterCountAndLabels ==
    /\ \A n \in 2..MAX_RESUMES_PER_BATCH :
          /\ \E r \in 1..n :
                /\ NearestToSqrt(n, r)
                /\ ClusterCount(n) = Min(Max(2, Min(6, r)), n)
          /\ 2 <= ClusterCount(n) /\ ClusterCount(n) <= Min(6, n)
    /\ analytics.pc \in {"neighbors", "attach", "done"} =>
          LET a == analytics IN
          /\ "clustering" \in a.attempted =>
                /\ a.n >= 2
                /\ \E r \in 1..a.n :
                      NearestToSqrt(a.n, r) /\ a.k = Min(Max(2, Min(6, r)), a.n)
                /\ \A i \in 1..a.n : a.labels[i] \in 0..(a.k - 1)
          /\ a.n < 2 =>
                /\ "clustering" \notin a.attempted
                /\ \A i \in 1..a.n : a.labels[i] = 0
    /\ Answered =>
          \A p \in 1..Len(analytics.response.results) :
              analytics.response.results[p].cluster_id \in
                  IF "clustering" \in analytics.attempted
                  THEN 0..(analytics.k - 1) ELSE {0}

\* a cohort clustered into three clusters, the last of them in use
C14_Witness ==
    /\ Answered
    /\ "clustering" \in analytics.attempted \ analytics.failed
    /\ analytics.k = 3
    /\ \E p \in 1..Len(analytics.response.results) :
          analytics.response.results[p].cluster_id = 2

\* C15: with two or more valid candidates and a successful similarity
\* computation, the neighbour list of each candidate holds other candidates
\* only, each once, has exactly min(5, N-1) entries, each with the
\* neighbour's filename and its similarity to the candidate, and is ordered
\* by similarity, non-increasing.
C15_NeighborsTopFive ==
    (Answered /\ "similarity" \in analytics.attempted \ analytics.failed) =>
        LET a == analytics
            res == a.response.results
        IN  /\ a.n >= 2
            /\ \A i \in 1..a.n : \A p \in RankedAt(i) :
                  LET nb == res[p].neighbors IN
                  /\ Len(nb) = Min(5, a.n - 1)
                  /\ \A q \in 1..Len(nb) :
                        /\ DOMAIN nb[q] = {"filename", "sim"}
                        /\ \E j \in (1..a.n) \ {i} :
                              /\ nb[q].filename = a.valid_candidates[j].filename
                              /\ nb[q].sim = a.sim[i][j]
                  /\ \A q1, q2 \in 1..Len(nb) :
                        /\ q1 < q2 => nb[q1].sim >= nb[q2].sim
                        /\ q1 # q2 => nb[q1].filename # nb[q2].filename

\* a cohort of seven: six other candidates, five of them kept, not all
\* equally similar
C15_Witness ==
    /\ Answered /\ analytics.n = 7
    /\ "similarity" \in analytics.attempted \ analytics.failed
    /\ \E p \in 1..Len(analytics.response.results) :
          LET nb == analytics.response.results[p].neighbors IN
          Len(nb) = 5 /\ nb[1].sim > nb[5].sim

(***************************************************************************)
(* Claims about the missing skills and the keyword score.                  *)
(***************************************************************************)
\* the required skills, lowercased, that are neither in the entry's skill
\* set nor a substring of its text, in ascending order
ExpectedMissing(entry, hard) ==
    Sorted({s \in _lower_set(hard) :
              /\ s \notin _lower_set(entry.skills)
              /\ ~IsSubstring(s, Lower(TextSource(entry)))})

\* the entries a finished request analysed itself
AnalysedBy(q) ==
    {p \in 1..Len(q.candidates) :
        ~q.candidates[p].error /\ q.candidates[p].oid[1] = q.serial}

\* the value score_candidates puts in the ranked results is the expected one
ScoredMissingAsExpected ==
    \A r \in DOMAIN req :
        LET q == req[r] IN
        (q.pc = "done" /\ q.response.status = 200) =>
            \A p \in 1..Len(q.response.results) :
                q.response.results[p].missing_hard_skills =
                    ExpectedMissing(q.response.results[p], q.hard_skills)

\* C16: for every candidate, missing_hard_skills is the ascending list of
\* the lowercased required skills found neither in the enriched skill set
\* nor as a substring of the text, both as analyze_profile_vs_job produces
\* it (the entry the request builds) and as score_candidates returns it.
C16_MissingHardSkillsFromSetAndText ==
    /\ ScoredMissingAsExpected
    /\ \A r \in DOMAIN req :
          LET q == req[r] IN
          (q.pc = "done" /\ q.response.status = 200) =>
              \A p \in AnalysedBy(q) :
                  q.candidates[p].missing_hard_skills =
                      ExpectedMissing(q.candidates[p], q.hard_skills)

\* a request has analysed and ranked a document against required skills
C16_Witness ==
    \E r \in DOMAIN req :
        LET q == req[r] IN
        /\ q.pc = "done" /\ q.response.status = 200
        /\ q.hard_skills # <<>> /\ AnalysedBy(q) # {}
        /\ \E p \in 1..Len(q.response.results) :
              q.response.results[p].missing_hard_skills # <<>>

\* the skill is found for the result's candidate: as a substring of its
\* text or as a member of its skill set
Found(r, s) ==
    IsSubstring(Lower(s), Lower(TextSource(r))) \/ Lower(s) \in _lower_set(r.skills)

\* the number of skills of the list that are found, over the number of
\* skills in the list
ListCoverage(r, list) ==
    IF list = <<>> THEN 0
    ELSE Frac(Cardinality({i \in 1..Len(list) : Found(r, list[i])}), Len(list))

\* the same over the distinct lowercased skills of the list
SetCoverage(r, list) ==
    LET lower == _lower_set(list)
    IN  IF lower = {} THEN 0
        ELSE Frac(Cardinality({s \in lower : Found(r, s)}), Cardinality(lower))

CoversAll(r, list) == \A i \in 1..Len(list) : Found(r, list[i])

\* C17 as stated: keyword_score = 0.7 * hard coverage + 0.3 * nice coverage,
\* a coverage being the number of skills of the list found in the text or in
\* the skill set over the number of skills in the list, 0 for an empty
\* list; a candidate covering every required and every preferred skill has
\* keyword_score 1.0 and a positive overall_score.
C17_KeywordScoreFromCoverage ==
    sc_pc = "done" =>
        \A p \in 1..Len(results) :
            LET r == results[p] IN
            /\ r.keyword_score =
                  (7 * ListCoverage(r, hard_skills)
                   + 3 * ListCoverage(r, nice_skills)) \div 10
            /\ (CoversAll(r, hard_skills) /\ CoversAll(r, nice_skills)) =>
                  r.keyword_score = One /\ r.overall_score > 0

\* C17, amended: keyword_score = 0.7 * hard coverage + 0.3 * nice coverage,
\* a coverage being taken over the distinct lowercased skills of the list
\* (found over total, 0 for an empty list); the coverage fields of the
\* result are these coverages rounded to three decimals; a candidate
\* covering every skill of a non-empty required list and of a non-empty
\* preferred list has keyword_score 1.0 and a positive overall_score, and
\* with an empty preferred list the keyword score is at most 0.7.
C17_KeywordScoreFromDistinctCoverage ==
    sc_pc = "done" =>
        \A p \in 1..Len(results) :
            LET r == results[p]
                hard_cov == SetCoverage(r, hard_skills)
                nice_cov == SetCoverage(r, nice_skills)
            IN  /\ r.keyword_score = (7 * hard_cov + 3 * nice_cov) \div 10
                /\ r.hard_skill_coverage = Round3(hard_cov)
                /\ r.nice_skill_coverage = Round3(nice_cov)
                /\ (/\ hard_skills # <<>> /\ nice_skills # <<>>
                    /\ CoversAll(r, hard_skills) /\ CoversAll(r, nice_skills)) =>
                      r.keyword_score = One /\ r.overall_score > 0
                /\ nice_skills = <<>> => r.keyword_score <= Frac(7, 10)

\* a candidate covering both of two required skills and the preferred one
C17_Witness ==
    /\ sc_pc = "done"
    /\ Len(hard_skills) >= 2 /\ nice_skills # <<>>
    /\ \E p \in 1..Len(results) :
          /\ CoversAll(results[p], hard_skills)
          /\ CoversAll(results[p], nice_skills)
          /\ results[p].keyword_score = One

\* a candidate covering every required skill, with no preferred skill asked
C17_WitnessNoPreferred ==
    /\ sc_pc = "done"
    /\ hard_skills # <<>> /\ nice_skills = <<>>
    /\ \E p \in 1..Len(results) :
          /\ CoversAll(results[p], hard_skills)
          /\ results[p].keyword_score = Frac(7, 10)

\* a coverage of two thirds, rounded in the result
C17_WitnessRounded ==
    /\ sc_pc = "done"
    /\ \E p \in 1..Len(results) :
          /\ SetCoverage(results[p], hard_skills) = Frac(2, 3)
          /\ results[p].hard_skill_coverage = Frac(667, 1000)

(***************************************************************************)
(* Claims about what the session bucket keeps.                             *)
(***************************************************************************)
AnalyticsFields == {"pca", "cluster_id", "neighbors"}

\* C18: every derived value of a response is computed by the request that
\* returns it: each returned entry was analysed by this request, a response
\* of /api/process carries no pca, cluster_id or neighbors, and no entry
\* stored in a session bucket carries pca, cluster_id or neighbors.
C18_DerivedValuesComputedByRequest ==
    /\ \A r \in DOMAIN req :
          LET q == req[r] IN
          (q.pc = "done" /\ q.response.status = 200) =>
              \A p \in 1..Len(q.response.results) :
                  LET e == q.response.results[p] IN
                  /\ e.oid[1] = q.serial
                  /\ q.endpoint = "process" => DOMAIN e \cap AnalyticsFields = {}
    /\ \A b \in DOMAIN buckets :
          \A p \in 1..Len(buckets[b].candidates) :
              DOMAIN buckets[b].candidates[p] \cap AnalyticsFields = {}

\* a request on a session key that returns an entry accumulated by an
\* earlier request
C18_Witness ==
    \E r \in DOMAIN req :
        LET q == req[r] IN
        /\ q.pc = "done" /\ q.response.status = 200 /\ q.sess_id # <<>>
        /\ \E p \in 1..Len(q.response.results) :
              q.response.results[p].oid[1] < q.serial

\* /api/process returns coordinates, a cluster and neighbours that an
\* earlier /api/analytics request computed
C18_WitnessStaleAnalytics ==
    \E r \in DOMAIN req :
        LET q == req[r] IN
        /\ q.pc = "done" /\ q.response.status = 200 /\ q.endpoint = "process"
        /\ \E p \in 1..Len(q.response.results) :
              LET e == q.response.results[p] IN
              /\ e.oid[1] < q.serial
              /\ AnalyticsFields \subseteq DOMAIN e
              /\ Len(q.response.results) > 1

AgeMentions ==
    {<<"2", "5", " ", "y", "e", "a", "r", "s", " ", "o", "l", "d">>,
     <<"2", "5", " ", "y", "e", "a", "r", " ", "o", "l", "d">>,
     <<"2", "5", "y", "e", "a", "r", "s", "o", "l", "d">>,
     <<"a", "g", "e", " ", "3", "0">>}
AgeLike == <<"a", "g", "e", "d", " ", "3", "0">>
\* gender words: "male" and "female", and "she" and "He" of GENDER_PAT
GenderWords == {<<"m", "a", "l", "e">>, <<"f", "e", "m", "a", "l", "e">>, <<"s", "h", "e">>, <<"H", "e">>}
\* e-mail addresses, and a string with a top-level domain of one letter
EmailAddresses == {<<"a", "@", "b", ".", "c", "o", "m">>, <<"j", "o", "h", "n", "@", "e", "x", "a", "m", "p", "l", "e", ".", "c", "o", "m">>}
EmailLike == <<"a", "@", "b", ".", "c">>
Leads == {<<>>, <<"J", "o", "h", "n", " ", "i", "s", " ", "a", " ">>}
Middle == <<" ", "d", "e", "v", "e", "l", "o", "p", "e", "r", ",", " ", "e", "m", "a", "i", "l", " ">>

\* a text built as lead, age part, gender part, " developer, email " and
\* e-mail part, with the mentions it was built from
RedactInput(lead, age, gender, email) ==
    [text |-> lead \o age \o <<" ">> \o gender \o Middle \o email,
     age |-> IF age \in AgeMentions THEN age ELSE <<>>,
     gender |-> gender,
     email |-> IF email \in EmailAddresses THEN email ELSE <<>>]

RedactInputs ==
    {RedactInput(l, a, g, e) :
        l \in Leads, a \in AgeMentions \cup {AgeLike, <<>>},
        g \in GenderWords \cup {<<>>}, e \in EmailAddresses \cup {EmailLike, <<>>}}
    \cup {[text |-> <<>>, age |-> <<>>, gender |-> <<>>, email |-> <<>>]}

InitRedact ==
    /\ \E in \in RedactInputs :
          redaction = [IdleRedaction EXCEPT
                         !.pc = "call", !.text = in.text, !.age = in.age,
                         !.gender = in.gender, !.email = in.email]
    /\ AnIdle /\ ScIdle /\ AppIdle /\ analytics = IdleAnalytics
    /\ analyzing = IdleAnalysis

red_rest == <<an_vars, sc_vars, app_vars, analytics, analyzing>>

\* if not text: return {"redacted": "", "notes": ""}
ReturnEmpty ==
    /\ redaction.pc = "call" /\ redaction.text = <<>>
    /\ redaction' = [redaction EXCEPT !.pc = "done"]
    /\ UNCHANGED red_rest

\* notes = []; out = text
StartLoop ==
    /\ redaction.pc = "call" /\ redaction.text # <<>>
    /\ redaction' = [redaction EXCEPT
                       !.out = redaction.text, !.notes = <<>>, !.k = 1,
                       !.pc = "loop"]
    /\ UNCHANGED red_rest

\* one pass of the loop over the patterns
ApplyPattern ==
    /\ redaction.pc = "loop" /\ redaction.k <= Len(RedactionPatterns)
    /\ LET pat == RedactionPatterns[redaction.k]
           hit == PatternSearch(pat, redaction.out)
       IN  redaction' =
             [redaction EXCEPT
                !.out = IF hit THEN PatternSub(pat, @) ELSE @,
                !.notes = IF hit THEN Append(@, pat.name) ELSE @,
                !.k = @ + 1]
    /\ UNCHANGED red_rest

\* return {"redacted": out, "notes": ",".join(notes)}
ReturnRedacted ==
    /\ redaction.pc = "loop" /\ redaction.k > Len(RedactionPatterns)
    /\ redaction' = [redaction EXCEPT
                       !.result = [redacted |-> redaction.out,
                                   notes |-> redaction.notes],
                       !.pc = "done"]
    /\ UNCHANGED red_rest

NextRedact == ReturnEmpty \/ StartLoop \/ ApplyPattern \/ ReturnRedacted

SpecRedact == InitRedact /\ [][NextRedact]_vars

\* the call returns what the operator used by the request handlers gives
RedactionAsInHandlers ==
    redaction.pc = "done" => redaction.result = redact_sensitive(redaction.text)

\* the text held an age mention, a gender word and an e-mail address, and
\* the call has returned
RedactedAll ==
    /\ redaction.pc = "done"
    /\ redaction.age # <<>> /\ redaction.gender # <<>> /\ redaction.email # <<>>

\* what the patterns do cover: the age mention and the address are gone and
\* noted, and so is a gender word of GENDER_PAT
CoveredMentionsRedacted ==
    RedactedAll =>
        /\ ~IsSubstring(redaction.age, redaction.result.redacted)
        /\ ~IsSubstring(redaction.email, redaction.result.redacted)
        /\ {"age", "contact"} \subseteq Range(redaction.result.notes)
        /\ Lower(redaction.gender) \in GENDER_WORDS =>
              /\ ~IsSubstring(redaction.gender, redaction.result.redacted)
              /\ "gender" \in Range(redaction.result.notes)

\* C20: for a text that holds an age mention, a gender word and an e-mail
\* address, the redacted text holds none of the three and the notes name at
\* least the categories age and gender.
C20_AgeGenderEmailRedacted ==
    RedactedAll =>
        /\ ~IsSubstring(redaction.age, redaction.result.redacted)
        /\ ~IsSubstring(redaction.gender, redaction.result.redacted)
        /\ ~IsSubstring(redaction.email, redaction.result.redacted)
        /\ {"age", "gender"} \subseteq Range(redaction.result.notes)

\* "25 years old male developer, email a@b.com" redacted: the age and the
\* address are replaced, "male" is still there and gender is not noted
C20_Witness ==
    /\ RedactedAll
    /\ redaction.text = <<"2", "5", " ", "y", "e", "a", "r", "s", " ", "o", "l", "d", " ", "m", "a", "l", "e", " ", "d", "e", "v", "e", "l", "o", "p", "e", "r", ",", " ", "e", "m", "a", "i", "l", " ", "a", "@", "b", ".", "c", "o", "m">>
    /\ redaction.result.notes = <<"age", "contact">>
    /\ IsSubstring(<<"m", "a", "l", "e">>, redaction.result.redacted)
    /\ IsSubstring(REDACTION_TOKEN, redaction.result.redacted)

(***************************************************************************)
(* Claims about the order of redaction and analysis.                       *)
(***************************************************************************)
Redacted(text) == redact_sensitive(text).redacted

\* the candidate entries a request, a bucket or a response holds
EntriesHeld ==
    UNION {Range(req[q].candidates) \cup Range(req[q].response.results) :
             q \in Workers}
    \cup UNION {Range(buckets[b].candidates) : b \in DOMAIN buckets}

\* the texts of the uploaded documents and the job descriptions posted
DocTexts == UNION {{fl[i].text : i \in DOMAIN fl} : fl \in FileLists}
JobsPosted == {f.job_description : f \in Forms}

\* the skills extract_profile and _enrich_profile give for a text
SkillsFrom(text) == _enrich_profile(extract_profile(text), text).skills

\* for each document text: its redaction and the skills found in the
\* redaction;  for each job description posted: the redaction of the
\* stripped description
RedactedDocs == {<<t, Redacted(t), SkillsFrom(Redacted(t))>> : t \in DocTexts}
RedactedJobs == {<<j, Redacted(Strip(j))>> : j \in JobsPosted}
OfDoc(t) == CHOOSE p \in RedactedDocs : p[1] = t
OfJob(j) == CHOOSE p \in RedactedJobs : p[1] = j

\* C21: in both handlers redaction comes first: the job description the
\* handler works with is the redaction of the posted one, and for every
\* candidate entry the text kept as redacted is the redaction of the
\* document's text, the text the vectoriser and score_candidates read is
\* that redacted text (also when the fallback to raw_text is taken), and
\* the profile and the analysis were built from it with the redacted job
\* description.
C21_RedactionBeforeAnalysis ==
    /\ \A q \in Workers :
         req[q].pc \notin {"idle", "done"} =>
            /\ req[q].job_text_redacted = OfJob(req[q].form.job_description)[2]
            /\ \A i \in 1..Len(req[q].candidates) :
                  LET e == req[q].candidates[i]
                  IN  e.oid[1] = req[q].serial /\ ~e.error =>
                         e.analyzed_for.job_text = req[q].job_text_redacted
    /\ \A e \in EntriesHeld :
         /\ e.raw_text \in DocTexts
         /\ e.raw_text_redacted = OfDoc(e.raw_text)[2]
         /\ TextSource(e) = OfDoc(e.raw_text)[2]
         /\ ~e.error => e.skills = OfDoc(e.raw_text)[3]

\* a response holds a scored document whose text redaction changed and
\* whose profile would differ had the original been read, next to a scored
\* document for which the fallback to raw_text was taken
C21_Witness ==
    \E q \in Workers :
       /\ req[q].pc = "done"
       /\ req[q].job_text_redacted # Strip(req[q].form.job_description)
       /\ \E r1, r2 \in Range(req[q].response.results) :
             /\ ~r1.error /\ r1.raw_text_redacted # r1.raw_text
             /\ ~r2.error /\ r2.raw_text_redacted = <<>>

(***************************************************************************)
(* SpecAnalyze: one call of analyze_profile_vs_job, from the enrichment of *)
(* the profile to the total experience, one step per function called.      *)
(***************************************************************************)
MaxLines == 2
MaxRanges == 2

\* lines of a resume: two that hold the same range, one whose end token
\* names month 0, one that runs to the present, one of a project
L_engineer == <<"e", "n", "g", "i", "n", "e", "e", "r", " ", "2", "0", "1", "9", "-", "2", "0", "2", "1">>
L_role == <<"r", "o", "l", "e", " ", "2", "0", "1", "9", " ", "-", " ", "2", "0", "2", "1">>
L_analyst == <<"a", "n", "a", "l", "y", "s", "t", " ", "0", "1", "/", "2", "0", "2", "0", " ", "-", " ", "0", "0", "/", "2", "0", "2", "0">>
L_intern == <<"i", "n", "t", "e", "r", "n", " ", "0", "2", "/", "2", "0", "2", "1", "-", "P", "r", "e", "s", "e", "n", "t">>
L_project == <<"p", "r", "o", "j", "e", "c", "t", " ", "2", "0", "1", "0", "-", "2", "0", "1", "1">>
ResumeLines == {L_engineer, L_role, L_analyst, L_intern, L_project}

\* "\n".join(lines)
RECURSIVE TextOf(_)
TextOf(lines) ==
    IF lines = <<>> THEN <<>>
    ELSE IF Len(lines) = 1 THEN lines[1]
    ELSE lines[1] \o <<"\n">> \o TextOf(Tail(lines))
ResumeTexts == {TextOf(ls) : ls \in UNION {[1..k -> ResumeLines] : k \in 0..MaxLines}}

\* range tokens as extract_profile leaves them, and tokens that do not parse
K_jan2020 == <<"J", "a", "n", " ", "2", "0", "2", "0">>
K_jun2020 == <<"J", "u", "n", " ", "2", "0", "2", "0">>
K_2019 == <<"2", "0", "1", "9">>
K_2021 == <<"2", "0", "2", "1">>
K_none == <<>>
RawRanges ==
    {<<K_jan2020, K_jun2020>>, <<K_2019, K_2021>>, <<K_jun2020, K_none>>,
     <<K_none, K_jan2020>>, <<K_jun2020, K_jan2020>>, <<K_jun2020, K_jun2020>>}
RawRangeLists == UNION {[1..k -> RawRanges] : k \in 0..MaxRanges}

E_mba == <<"M", "B", "A", ",", " ", "X">>
E_school == <<"s", "c", "h", "o", "o", "l">>
RawProfiles ==
    {[skills |-> sk_ed[1], education |-> sk_ed[2], experience_ranges |-> rs] :
        sk_ed \in {<<<<>>, <<>>>>, <<<<S_Go, S_sql>>, <<E_school, E_mba>>>>},
        rs \in RawRangeLists}

\* what datetime.now() returns
NowChoices == {Clock, DT(2021, 6, 15, 9)}

InitAnalyze ==
    /\ \E raw \in RawProfiles, text \in ResumeTexts, now \in NowChoices :
          analyzing = [IdleAnalysis EXCEPT
                         !.pc = "enrich", !.raw = raw, !.text = text,
                         !.now = now]
    /\ AnIdle /\ ScIdle /\ AppIdle
    /\ analytics = IdleAnalytics /\ redaction = IdleRedaction

analyze_rest == <<an_vars, sc_vars, app_vars, analytics, redaction>>

\* profile = _enrich_profile(profile, candidate_text or "");
\* ranges = profile.get("experience_ranges", [])
EnrichProfile ==
    /\ analyzing.pc = "enrich"
    /\ \E profile \in {_enrich_profile(analyzing.raw, analyzing.text)} :
          analyzing' = [analyzing EXCEPT
                          !.profile = profile,
                          !.ranges = profile.experience_ranges,
                          !.pc = "normalize"]
    /\ UNCHANGED analyze_rest

\* norm = _normalize_ranges(ranges)
NormalizeRanges ==
    /\ analyzing.pc = "normalize"
    /\ analyzing' = [analyzing EXCEPT
                       !.norm_all = _normalize_ranges(analyzing.ranges,
                                                      analyzing.now),
                       !.pc = "filter"]
    /\ UNCHANGED analyze_rest

\* norm = _filter_short_intervals(norm, min_months=2.0)
FilterShortIntervals ==
    /\ analyzing.pc = "filter"
    /\ analyzing' = [analyzing EXCEPT
                       !.norm = _filter_short_intervals(analyzing.norm_all),
                       !.pc = "gaps"]
    /\ UNCHANGED analyze_rest

\* gaps = _find_gaps(norm)
GapsOfProfile ==
    /\ analyzing.pc = "gaps"
    /\ analyzing' = [analyzing EXCEPT
                       !.gaps = _find_gaps(analyzing.norm), !.pc = "overlaps"]
    /\ UNCHANGED analyze_rest

\* overlaps = _detect_overlaps(norm)
OverlapsOfProfile ==
    /\ analyzing.pc = "overlaps"
    /\ analyzing' = [analyzing EXCEPT
                       !.overlaps = _detect_overlaps(analyzing.norm),
                       !.pc = "total"]
    /\ UNCHANGED analyze_rest

\* total_months = _calc_total_experience_months(norm)
TotalOfProfile ==
    /\ analyzing.pc = "total"
    /\ analyzing' = [analyzing EXCEPT
                       !.total_months =
                           _calc_total_experience_months(analyzing.norm),
                       !.pc = "done"]
    /\ UNCHANGED analyze_rest

NextAnalyze ==
    \/ EnrichProfile \/ NormalizeRanges \/ FilterShortIntervals
    \/ GapsOfProfile \/ OverlapsOfProfile \/ TotalOfProfile

SpecAnalyze == InitAnalyze /\ [][NextAnalyze]_vars

(***************************************************************************)
(* Claims about the enrichment of the profile.                             *)
(***************************************************************************)
Enriched == analyzing.pc \notin {"idle", "enrich"}

\* xs occurs in ys as a subsequence: in ys, in the same relative order
IsSubsequence(xs, ys) ==
    \E f \in [1..Len(xs) -> 1..Len(ys)] :
       /\ \A i \in 1..Len(xs) : ys[f[i]] = xs[i]
       /\ \A i \in 1..(Len(xs) - 1) : f[i] < f[i + 1]

PairwiseDistinct(xs) ==
    \A i, j \in 1..Len(xs) : i # j => xs[i] # xs[j]

\* C22: enrichment removes nothing: after _enrich_profile every range of
\* the raw profile is still in experience_ranges, in the original relative
\* order, every raw skill is in skills in lower case, and the education
\* lines are those of the raw profile.
C22_EnrichmentOnlyAdds ==
    Enriched =>
       /\ IsSubsequence(analyzing.raw.experience_ranges,
                        analyzing.profile.experience_ranges)
       /\ \A i \in 1..Len(analyzing.raw.skills) :
             Lower(analyzing.raw.skills[i]) \in Range(analyzing.profile.skills)
       /\ analyzing.profile.education = analyzing.raw.education

\* a profile with two different ranges, skills and education lines was
\* enriched, and the enrichment appended a range and normalised a line
C22_Witness ==
    /\ Enriched
    /\ Len(analyzing.raw.experience_ranges) = 2
    /\ analyzing.raw.experience_ranges[1] # analyzing.raw.experience_ranges[2]
    /\ analyzing.raw.skills # analyzing.profile.skills
    /\ analyzing.raw.education # <<>>
    /\ analyzing.profile.education_normalized # <<>>
    /\ Len(analyzing.profile.experience_ranges) > 2

\* the ranges _enrich_profile appended
Appended ==
    SubSeq(analyzing.profile.experience_ranges,
           Len(analyzing.raw.experience_ranges) + 1,
           Len(analyzing.profile.experience_ranges))

\* no appended range is equal to a range the raw profile held
AppendedNotInRaw ==
    Enriched => \A i \in 1..Len(Appended) :
                   Appended[i] \notin Range(analyzing.raw.experience_ranges)

\* C26: the supplemental ranges are appended with de-duplication: no
\* appended range equals a range that was in experience_ranges already, so
\* pairwise distinct raw ranges give pairwise distinct enriched ranges, also
\* when several lines of the text hold the same range.
C26_SupplementalRangesDeduplicated ==
    Enriched =>
       /\ \A i \in 1..Len(Appended) :
             Appended[i] \notin Range(analyzing.raw.experience_ranges)
       /\ PairwiseDistinct(analyzing.raw.experience_ranges)
             => PairwiseDistinct(analyzing.profile.experience_ranges)

\* a profile without ranges was enriched from a text that holds the same
\* range on two lines, and the range was appended twice
C26_Witness ==
    /\ Enriched
    /\ analyzing.raw.experience_ranges = <<>>
    /\ analyzing.text = TextOf(<<L_engineer, L_role>>)
    /\ analyzing.profile.experience_ranges = <<<<K_2019, K_2021>>, <<K_2019, K_2021>>>>

(***************************************************************************)
(* Claims about the normalised intervals.                                  *)
(***************************************************************************)
Normalized == analyzing.pc \notin {"idle", "enrich", "normalize"}
Filtered == Normalized /\ analyzing.pc # "filter"

IsPresent(token) == Lower(Strip(token)) \in {<<"p", "r", "e", "s", "e", "n", "t">>, <<"c", "u", "r", "r", "e", "n", "t">>}
\* both tokens of the pair can be read
Parseable(r) ==
    /\ _parse_date(r[1]) # NoDate
    /\ IsPresent(r[2]) \/ _parse_date(r[2]) # NoDate
\* the interval of a pair whose tokens can be read
IntervalOf(r, now) ==
    <<_parse_date(r[1]), IF IsPresent(r[2]) THEN now ELSE _parse_date(r[2])>>

\* every interval has start <= end, and the list is sorted by start
WellFormed(n) ==
    /\ \A i \in 1..Len(n) : DtLeq(n[i][1], n[i][2])
    /\ SortedByStart(n)

\* the intervals are well formed whatever the tokens were
NormalizedWellFormed == Normalized => WellFormed(analyzing.norm_all)

\* C23: an interval comes only from a pair whose tokens parse: a pair whose
\* start token does not parse, or whose end token is neither present or
\* current nor parseable, gives no interval, and every interval has
\* start <= end, present and current standing for the time of the call.
C23_IntervalsOnlyFromParseableTokens ==
    Normalized =>
       /\ \A i \in 1..Len(analyzing.norm_all) :
             /\ DtLeq(analyzing.norm_all[i][1], analyzing.norm_all[i][2])
             /\ \E k \in 1..Len(analyzing.ranges) :
                   /\ Parseable(analyzing.ranges[k])
                   /\ analyzing.norm_all[i] =
                         IntervalOf(analyzing.ranges[k], analyzing.now)
       /\ Len(analyzing.norm_all)
             <= Cardinality({k \in 1..Len(analyzing.ranges) :
                               Parseable(analyzing.ranges[k])})

\* the only range is one whose end token does not parse, and an interval
\* that ends at the time of the call was produced from it
C23_Witness ==
    /\ Normalized
    /\ analyzing.ranges = <<<<K_jun2020, K_none>>>>
    /\ analyzing.norm_all = <<<<_parse_date(K_jun2020), analyzing.now>>>>

Long(iv) == _months_between(iv[1], iv[2]) >= MinMonths
LongIntervals == {iv \in Range(analyzing.norm_all) : Long(iv)}

\* C24: the intervals that span less than 2 months are discarded before the
\* gaps, the overlaps and the total are computed: the list handed to the
\* three steps is sorted by start and holds the intervals of 2 months and
\* more and no other, every gap record lies between two of these, every
\* overlap record starts at one of these and ends with one of these, and
\* the total is the total of these.
C24_ShortIntervalsDiscarded ==
    /\ Filtered =>
          /\ analyzing.norm = SelectSeq(analyzing.norm_all, Long)
          /\ SortedByStart(analyzing.norm)
    /\ analyzing.pc \in {"overlaps", "total", "done"} =>
          \A i \in 1..Len(analyzing.gaps) :
             \E a, b \in LongIntervals :
                /\ analyzing.gaps[i].start = IsoDate(a[2])
                /\ analyzing.gaps[i].end = IsoDate(b[1])
    /\ analyzing.pc \in {"total", "done"} =>
          \A i \in 1..Len(analyzing.overlaps) :
             \E a, b \in LongIntervals :
                /\ analyzing.overlaps[i].start = IsoDate(b[1])
                /\ analyzing.overlaps[i].end \in {IsoDate(a[2]), IsoDate(b[2])}
    /\ analyzing.pc = "done" =>
          analyzing.total_months =
             SumMonths(_merge_intervals(SelectSeq(analyzing.norm_all, Long)))

\* an interval of less than 2 months was discarded, and with it the gap and
\* the months it would have brought
C24_Witness ==
    /\ analyzing.pc = "done"
    /\ \E iv \in Range(analyzing.norm_all) : ~Long(iv) /\ iv[1] # iv[2]
    /\ _find_gaps(analyzing.norm_all) # analyzing.gaps
    /\ _calc_total_experience_months(analyzing.norm_all) # analyzing.total_months

\* an interval of no length was discarded, a gap between two of the
\* intervals kept was reported, and two others of them overlap
C24_WitnessGap ==
    /\ analyzing.pc = "done"
    /\ Len(analyzing.norm) < Len(analyzing.norm_all)
    /\ analyzing.gaps # <<>>
    /\ analyzing.overlaps # <<>>

(***************************************************************************)
(* Claims about the merged runs and the reported gaps (SpecIntervals).     *)
(***************************************************************************)
Inside(iv, run) == DtLeq(run[1], iv[1]) /\ DtLeq(iv[2], run[2])

\* C25: for a start-sorted list of intervals with start <= end,
\* _merge_intervals returns maximal runs: the runs are sorted by start, each
\* run starts after the end of the run before it (overlapping and touching
\* intervals are never left in different runs), every input interval lies in
\* exactly one run, and the start and the end of every run are the start of
\* an input and the end of an input.
C25_MergedRunsMaximal ==
    an_pc = "done" =>
       LET merged == _merge_intervals(norm)
       IN  /\ SortedByStart(merged)
           /\ \A k \in 1..(Len(merged) - 1) : DtLess(merged[k][2], merged[k + 1][1])
           /\ \A i \in 1..Len(norm) :
                 Cardinality({k \in 1..Len(merged) : Inside(norm[i], merged[k])}) = 1
           /\ \A k \in 1..Len(merged) :
                 /\ \E i \in 1..Len(norm) : merged[k][1] = norm[i][1]
                 /\ \E i \in 1..Len(norm) : merged[k][2] = norm[i][2]
           /\ total_months = SumMonths(merged)

\* three intervals: the second starts where the first ends, the third is
\* apart; they are merged into two runs
C25_Witness ==
    /\ an_pc = "done"
    /\ norm = <<<<Jan2020, Oct2020>>, <<Oct2020, Oct2020>>, <<Dec2020, Aug2021>>>>
    /\ _merge_intervals(norm) = <<<<Jan2020, Oct2020>>, <<Dec2020, Aug2021>>>>

\* two intervals that touch are merged into one run
C25_WitnessTouching ==
    /\ an_pc = "done"
    /\ norm = <<<<Jan2020, Jun2020>>, <<Jun2020, Oct2020>>>>
    /\ _merge_intervals(norm) = <<<<Jan2020, Oct2020>>>>

\* C29: every gap record denotes a period without employment: no input
\* interval overlaps the open period between the start and the end of a
\* reported gap.
C29_GapsHoldNoEmployment ==
    an_pc \in {"overlaps", "total", "done"} =>
       \A g \in 1..Len(gaps) : \A i \in 1..Len(norm) :
          ~(/\ ToOrdinal(norm[i][1]) < ToOrdinal(gaps[g].end)
            /\ ToOrdinal(gaps[g].start) < ToOrdinal(norm[i][2]))

\* the first interval spans the two that follow it, and the time between
\* these two is reported as a gap
C29_Witness ==
    /\ an_pc = "done"
    /\ norm = <<<<Jan2020, Aug2021>>, <<Jan2020, Jun2020>>, <<Oct2020, Dec2020>>>>
    /\ gaps = <<[start |-> IsoDate(Jun2020), end |-> IsoDate(Oct2020), days |-> 122]>>

(***************************************************************************)
(* Claims about the overall score and the risk score (SpecScore).          *)
(***************************************************************************)
\* the flags present on a result
FlagsPresent(r) == Range(r.flags)

\* min(0.10, the sum of the penalties of the flags present)
PenaltiesOf(r) ==
    Min(Frac(10, 100),
        (IF FLAG_GAPS \in FlagsPresent(r) THEN Frac(5, 100) ELSE 0)
      + (IF FLAG_OVERLAPS \in FlagsPresent(r) THEN Frac(3, 100) ELSE 0)
      + (IF FLAG_DUPS \in FlagsPresent(r) THEN Frac(2, 100) ELSE 0)
      + (IF FLAG_EXAG \in FlagsPresent(r) THEN Frac(4, 100) ELSE 0))

\* the penalties of the flags present, before the cap
PenaltiesUncapped(r) ==
    (IF FLAG_GAPS \in FlagsPresent(r) THEN 5 ELSE 0)
  + (IF FLAG_OVERLAPS \in FlagsPresent(r) THEN 3 ELSE 0)
  + (IF FLAG_DUPS \in FlagsPresent(r) THEN 2 ELSE 0)
  + (IF FLAG_EXAG \in FlagsPresent(r) THEN 4 ELSE 0)

\* 0.5*keyword + 0.35*semantic + 0.15*trend of a result
BaseOf(r) ==
    (50 * r.keyword_score + 35 * r.semantic_score + 15 * r.trend_score) \div 100

\* the three bonuses of a result for the job text of the call
CertBonusOf(r) ==
    Min(IF jd_cert_focus(job_text) THEN Frac(8, 100) ELSE Frac(6, 100),
        Len(r.certifications) * Frac(3, 100))
EduBonusOf(r) ==
    LET values == {EduValue(r.education_normalized[k].level) :
                      k \in 1..Len(r.education_normalized)}
    IN  IF values = {} THEN 0 ELSE CHOOSE v \in values : \A w \in values : w <= v
ContactBonusOf(r) ==
    Min(Frac(2, 100),
        (IF r.contacts.email THEN Frac(7, 1000) ELSE 0)
      + (IF r.contacts.phone THEN Frac(7, 1000) ELSE 0)
      + (IF r.contacts.links > 0 THEN Frac(6, 1000) ELSE 0))

\* the overall score before the consistency bonus
BeforeConsistency(r) ==
    clamp01(BaseOf(r) + CertBonusOf(r) + EduBonusOf(r) + ContactBonusOf(r)
            - PenaltiesOf(r))

\* the distinct lower-cased required skills of the call, and those of them
\* that are both in the skill set of a result and in its text
RequiredSkills == _lower_set(hard_skills)
ConfirmedSkills(r) ==
    {s \in RequiredSkills :
        s \in _lower_set(r.skills) /\ IsSubstring(s, Lower(TextSource(r)))}

\* the consistency bonus, reduced to 1 - overall when adding it would
\* exceed 1.0
Reduced(r, bonus) ==
    IF BeforeConsistency(r) + bonus > One THEN One - BeforeConsistency(r) ELSE bonus

\* the bonus as stated: at least half, at least a quarter of the required
\* skills, which holds of no required skill at all
StatedConsistencyBonus(r) ==
    LET n == Cardinality(RequiredSkills)
        c == Cardinality(ConfirmedSkills(r))
    IN  IF 2 * c >= n THEN Frac(2, 100)
        ELSE IF 4 * c >= n THEN Frac(1, 100) ELSE 0

\* the bonus when a call without required skills confirms nothing
ConsistencyBonusOf(r) ==
    IF RequiredSkills = {} THEN 0 ELSE StatedConsistencyBonus(r)

\* C27 as stated: overall_score = clamp01(clamp01(base + cert_bonus +
\* edu_bonus + contact_bonus - penalties) + consistency_bonus), the bonus
\* being 0.02 when at least half of the required skills are confirmed in
\* both skill set and text, 0.01 when at least a quarter, else 0.
C27_Original ==
    sc_pc # "call" =>
       \A i \in 1..Len(results) :
          results[i].overall_score =
             clamp01(BeforeConsistency(results[i])
                     + Reduced(results[i], StatedConsistencyBonus(results[i])))

\* C27: for every candidate, overall_score = clamp01(clamp01(base +
\* cert_bonus + edu_bonus + contact_bonus - penalties) + consistency_bonus),
\* where base = 0.5*keyword + 0.35*semantic + 0.15*trend, penalties =
\* min(0.10, the sum of 0.05 gaps, 0.03 overlaps, 0.02 duplicate claims and
\* 0.04 exaggeration over the flags present), and consistency_bonus is 0
\* when no skill is required, and otherwise 0.02 when at least half of the
\* distinct required skills are confirmed in both skill set and text, 0.01
\* when at least a quarter, else 0, reduced to 1 - overall when adding it
\* would exceed 1.0.
C27_OverallScoreFormula ==
    sc_pc # "call" =>
       \A i \in 1..Len(results) :
          results[i].overall_score =
             clamp01(BeforeConsistency(results[i])
                     + Reduced(results[i], ConsistencyBonusOf(results[i])))

\* a candidate with all four penalised flags, whose penalties of 0.14 are
\* capped at 0.10, and with one of two required skills confirmed, scored
\* strictly between 0 and 1
C27_Witness ==
    /\ sc_pc = "done"
    /\ \E i \in 1..Len(results) :
          /\ PenaltiesUncapped(results[i]) = 14
          /\ PenaltiesOf(results[i]) = Frac(10, 100)
          /\ Cardinality(RequiredSkills) = 2
          /\ Cardinality(ConfirmedSkills(results[i])) = 1
          /\ results[i].overall_score > 0
          /\ results[i].overall_score < One
          /\ results[i].overall_score =
                BeforeConsistency(results[i]) + Frac(2, 100)

\* a candidate whose score reaches 1.0 before the consistency bonus, so the
\* bonus of 0.02 is reduced to nothing
C27_WitnessReduced ==
    /\ sc_pc = "done"
    /\ \E i \in 1..Len(results) :
          /\ BeforeConsistency(results[i]) = One
          /\ ConsistencyBonusOf(results[i]) = Frac(2, 100)
          /\ Reduced(results[i], ConsistencyBonusOf(results[i])) = 0
          /\ results[i].overall_score = One

\* a quarter of the required skills is not reached, or just reached
C27_WitnessQuarter ==
    /\ sc_pc = "done"
    /\ \E i \in 1..Len(results) :
          /\ Cardinality(RequiredSkills) = 3
          /\ Cardinality(ConfirmedSkills(results[i])) = 1
          /\ ConsistencyBonusOf(results[i]) = Frac(1, 100)
          /\ results[i].overall_score =
                BeforeConsistency(results[i]) + Frac(1, 100)

\* a call without required skills: no bonus is added
C27_WitnessNoRequired ==
    /\ sc_pc = "done"
    /\ RequiredSkills = {}
    /\ \E i \in 1..Len(results) :
          /\ results[i].overall_score = BeforeConsistency(results[i])
          /\ results[i].overall_score > 0
          /\ results[i].overall_score < One

\* the sum of the risk contributions of a result
RiskSumOf(r) ==
    (IF FLAG_GAPS \in FlagsPresent(r) THEN Frac(25, 100) ELSE 0)
  + (IF FLAG_OVERLAPS \in FlagsPresent(r) THEN Frac(20, 100) ELSE 0)
  + (IF FLAG_DUPS \in FlagsPresent(r) THEN Frac(15, 100) ELSE 0)
  + (IF FLAG_EXAG \in FlagsPresent(r) THEN Frac(20, 100) ELSE 0)
  + (IF r.experience_ranges = <<>> THEN Frac(15, 100) ELSE 0)
  + (IF ~(r.contacts.email /\ r.contacts.phone) THEN Frac(10, 100) ELSE 0)

\* what the risk score is computed from
RiskInputs(r) ==
    <<FlagsPresent(r) \cap {FLAG_GAPS, FLAG_OVERLAPS, FLAG_DUPS, FLAG_EXAG},
      r.experience_ranges = <<>>, r.contacts.email /\ r.contacts.phone>>

\* C28: for every candidate, risk_score = clamp01 of the sum of 0.25 (gaps
\* flag), 0.20 (overlaps flag), 0.15 (duplicate-claims flag), 0.20
\* (exaggeration flag), 0.15 (no experience ranges at all) and 0.10 (email
\* or phone missing); risk_label is Low exactly when risk_score < 0.3,
\* Medium exactly when 0.3 <= risk_score < 0.6 and High exactly when
\* risk_score >= 0.6; two candidates with the same flags, the same absence
\* of ranges and the same contacts have the same risk_score whatever their
\* keyword, semantic and trend scores.
C28_RiskScoreAndLabel ==
    sc_pc # "call" =>
       /\ \A i \in 1..Len(results) :
             LET r == results[i]
             IN  /\ r.risk_score = clamp01(RiskSumOf(r))
                 /\ r.risk_label \in {"Low", "Medium", "High"}
                 /\ r.risk_label = "Low" <=> r.risk_score < Frac(3, 10)
                 /\ r.risk_label = "Medium" <=>
                       (Frac(3, 10) <= r.risk_score /\ r.risk_score < Frac(6, 10))
                 /\ r.risk_label = "High" <=> r.risk_score >= Frac(6, 10)
       /\ \A i, j \in 1..Len(results) :
             RiskInputs(results[i]) = RiskInputs(results[j])
                => results[i].risk_score = results[j].risk_score

\* a cohort with a risk of exactly 0.3, labelled Medium, and a risk of
\* exactly 0.6, labelled High
C28_Witness ==
    /\ sc_pc = "done"
    /\ \E i, j \in 1..Len(results) :
          /\ results[i].risk_score = Frac(3, 10)
          /\ results[i].risk_label = "Medium"
          /\ results[j].risk_score = Frac(6, 10)
          /\ results[j].risk_label = "High"

\* all six contributions add up to 1.05, and the risk is 1.0
C28_WitnessClamped ==
    /\ sc_pc = "done"
    /\ \E i \in 1..Len(results) :
          /\ RiskSumOf(results[i]) = Frac(105, 100)
          /\ results[i].risk_score = One
          /\ results[i].risk_label = "High"

\* a risk of 0.25, just under the threshold, labelled Low
C28_WitnessLow ==
    /\ sc_pc = "done"
    /\ \E i \in 1..Len(results) :
          /\ results[i].risk_score = Frac(25, 100)
          /\ results[i].risk_label = "Low"

\* two candidates of one cohort with the same risk and different keyword,
\* semantic, trend and overall scores
C28_WitnessIndependent ==
    /\ sc_pc = "done"
    /\ \E i, j \in 1..Len(results) :
          /\ results[i].risk_score = results[j].risk_score
          /\ results[i].keyword_score # results[j].keyword_score
          /\ results[i].semantic_score # results[j].semantic_score
          /\ results[i].trend_score # results[j].trend_score
          /\ results[i].overall_score # results[j].overall_score

(***************************************************************************)
(* Claim about the de-duplication by filename (SpecSeq).                   *)
(***************************************************************************)
\* at most one entry per filename
OnePerFilename(cands) ==
    \A i, j \in 1..Len(cands) : cands[i].filename = cands[j].filename => i = j

\* C30: candidates are de-duplicated by filename: after any sequence of
\* /api/process and /api/analytics requests on a session key, failed and
\* oversized uploads and repeated names in one batch included, the session
\* bucket and the returned results hold at most one entry per filename.
C30_OneEntryPerFilename ==
    /\ \A b \in DOMAIN buckets : OnePerFilename(buckets[b].candidates)
    /\ \A r \in DOMAIN req :
          (req[r].pc = "done" /\ req[r].response.status = 200)
             => OnePerFilename(req[r].response.results)

\* a /api/process request on a session is answered with two results of one
\* filename, an analysed entry and an error entry, and the bucket of the
\* session holds both
C30_Witness ==
    \E r \in DOMAIN req :
        LET q == req[r] IN
        /\ q.pc = "done" /\ q.endpoint = "process" /\ q.response.status = 200
        /\ q.bucket # NoBucket
        /\ \E i, j \in 1..Len(q.response.results) :
              /\ q.response.results[i].filename = q.response.results[j].filename
              /\ ~q.response.results[i].error
              /\ q.response.results[j].error
        /\ \E i, j \in 1..Len(buckets[q.bucket].candidates) :
              /\ i # j
              /\ buckets[q.bucket].candidates[i].filename =
                    buckets[q.bucket].candidates[j].filename

\* what the de-duplication does ensure: a bucket holds at most one analysed
\* entry per filename, and it comes before the error entries of that name
OneAnalysedEntryPerFilename ==
    \A b \in DOMAIN buckets :
        LET cands == buckets[b].candidates IN
        \A i, j \in 1..Len(cands) :
            (cands[i].filename = cands[j].filename /\ ~cands[j].error /\ i # j)
               => (cands[i].error /\ j < i)


====
